---- MODULE Spec2Model ----
(***************************************************************************)
(* Model of the data-acquisition core of f1_predictor:                     *)
(*   cache.py         DataCache  (get / set / is_valid / clear, one JSON   *)
(*                    file per key)                                        *)
(*   data_fetcher.py  F1DataFetcher (_rate_limit, _make_request,           *)
(*                    _get_cached_or_fetch, the resource operations and    *)
(*                    their parsers)                                       *)
(* Time is counted in ticks of 100 ms (RATE_LIMIT_DELAY = 0.1 s = 1 tick). *)
(***************************************************************************)
EXTENDS Integers, Sequences, FiniteSets, TLC

VARIABLES
    now,                \* wall clock (datetime.now() / time.time()), in ticks
    files,              \* cache directory: file name -> file content
    dirOk,              \* the cache directory exists (DataCache._ensure_cache_dir)
    use_cache,          \* F1DataFetcher.use_cache
    last_request_time,  \* F1DataFetcher._last_request_time
    last_dispatch,      \* the clock at the latest requests.get call
    pc,                 \* "idle", or "request": an HTTP attempt is in flight
    cache_key,          \* _get_cached_or_fetch: parameter cache_key of the running call
    ttl,                \* _get_cached_or_fetch: parameter ttl of the running call
    retry_count,        \* _make_request: local retry_count
    last_exception,     \* _make_request: local last_exception
    attempts,           \* number of requests.get calls made so far
    slept,              \* the backoff sleeps of the current/last call, in order
    responses,          \* the provider's answers to the attempts of that call
    op,                 \* the operation that ran last, with its arguments
    ret,                \* what that operation returned or raised
    calls,              \* number of _get_cached_or_fetch calls so far
    fetched,            \* resource operation: what _get_cached_or_fetch gave it
    parsed,             \* resource operation: what it returned or raised
    run,                \* predict_next_race: its position, inputs and result
    second_last_request_time,
                        \* _last_request_time of a second F1DataFetcher of the process
    shared              \* two callers of one cache location: the file, byte for byte

vars == <<now, files, dirOk, use_cache, last_request_time, last_dispatch, pc,
          cache_key, ttl, retry_count, last_exception, attempts, slept, responses,
          op, ret, calls, fetched, parsed, run, second_last_request_time,
          shared>>

(***************************************************************************)
(* Bounds of the model                                                     *)
(***************************************************************************)
StartClock == 30   \* the clock when the process starts
Horizon == 2       \* seconds of wall-clock time the environment lets pass
MaxCalls == 2      \* _get_cached_or_fetch calls per run
MaxElems == 3      \* elements of one collection of a provider document
MaxStandings == 2  \* driver standings handed to one prediction run
MaxRecords == 1    \* records of each other collection handed to one run
MaxOps == 2        \* calls of each of two callers of one cache location

(***************************************************************************)
(* Program constants                                                       *)
(***************************************************************************)
TicksPerSecond == 10      \* 1 tick = RATE_LIMIT_DELAY = 0.1 s
RATE_LIMIT_DELAY == 1
\* one attempt too many
MAX_RETRIES_OneMore == 3 + 1

MAX_RETRIES == 3

(***************************************************************************)
(* Python values (payloads) and JSON documents                             *)
(***************************************************************************)
None == [tag |-> "None", v |-> 0, mr |-> FALSE]

\* a dict with string keys; mr: it has the key 'MRData'
Dict(i, mr) == [tag |-> "dict", v |-> i, mr |-> mr]
List(i) == [tag |-> "list", v |-> i, mr |-> FALSE]
\* a tuple: json.dump writes it as an array, json.load reads a list back
Tuple(i) == [tag |-> "tuple", v |-> i, mr |-> FALSE]
\* a Python set: json.dump raises TypeError on it
PySet(i) == [tag |-> "set", v |-> i, mr |-> FALSE]
\* a list that contains itself: json.dump raises ValueError on it
Cyclic(i) == [tag |-> "cyclic", v |-> i, mr |-> FALSE]
\* a bool, as is_valid returns it
PyBool(b) == [tag |-> "bool", v |-> IF b THEN 1 ELSE 0, mr |-> FALSE]

GoodBodies == {Dict(1, TRUE), Dict(2, TRUE)}

\* payloads handed to DataCache.set by a direct caller
Payloads == GoodBodies \cup {List(1), Tuple(1), PySet(1), Cyclic(1)}

\* the payloads JSON represents exactly (dict with string keys, list)
JsonValues == {p \in Payloads : p.tag \in {"dict", "list"}}

Serializable(p) == p.tag \in {"dict", "list", "tuple", "None"}

\* json.dump: the JSON document written for a Python value
JsonEncode(p) ==
    CASE p.tag = "dict" -> [tag |-> "object", v |-> p.v, mr |-> p.mr]
      [] p.tag = "list" -> [tag |-> "array", v |-> p.v, mr |-> FALSE]
      [] p.tag = "tuple" -> [tag |-> "array", v |-> p.v, mr |-> FALSE]
      [] OTHER -> [tag |-> "null", v |-> 0, mr |-> FALSE]

\* json.load: the Python value read from a JSON document
JsonDecode(j) ==
    CASE j.tag = "object" -> [tag |-> "dict", v |-> j.v, mr |-> j.mr]
      [] j.tag = "array" -> [tag |-> "list", v |-> j.v, mr |-> FALSE]
      [] OTHER -> None

\* datetime.isoformat(): the string written for a datetime
isoformat(t) == [tag |-> "isostr", t |-> t]

\* datetime.fromisoformat(s): a datetime, or ValueError / TypeError
fromisoformat(s) ==
    CASE s.tag = "isostr" -> [exc |-> "none", t |-> s.t]
      [] s.tag = "str" -> [exc |-> "ValueError", t |-> 0]
      [] OTHER -> [exc |-> "TypeError", t |-> 0]

(***************************************************************************)
(* Cache files                                                             *)
(***************************************************************************)
NoFile ==
    [kind |-> "nofile", keys |-> {}, data |-> JsonEncode(None),
     cached_at |-> 0, expires_at |-> isoformat(0), ttl |-> 0]

\* a path the process may not look up: the cache directory could not be
\* created because it lies in a directory without search permission, and
\* stat, open and glob on it fail with PermissionError (EACCES)
Denied == [NoFile EXCEPT !.kind = "denied"]

\* a file that is not JSON (truncated, partially written, garbage)
Garbage == [NoFile EXCEPT !.kind = "garbage"]

\* a JSON document that is a number, not an object
NumberDoc == [NoFile EXCEPT !.kind = "number"]

\* Entry with the sign of the ttl wrong
Entry_SubtractsTtl(data, at, seconds) ==
    [kind |-> "object", keys |-> {"data", "cached_at", "expires_at", "ttl"},
     data |-> JsonEncode(data), cached_at |-> at,
     expires_at |-> isoformat(at - seconds * TicksPerSecond), ttl |-> seconds]

\* Entry with a negative ttl counted as zero
Entry_ClampsTtl(data, at, seconds) ==
    [kind |-> "object", keys |-> {"data", "cached_at", "expires_at", "ttl"},
     data |-> JsonEncode(data), cached_at |-> at,
     expires_at |-> isoformat(IF seconds < 0 THEN at ELSE at + seconds * TicksPerSecond),
     ttl |-> seconds]

\* the document DataCache.set writes
Entry(data, at, seconds) ==
    [kind |-> "object", keys |-> {"data", "cached_at", "expires_at", "ttl"},
     data |-> JsonEncode(data), cached_at |-> at,
     expires_at |-> isoformat(at + seconds * TicksPerSecond), ttl |-> seconds]

\* a JSON document that is an array without the strings 'data', 'expires_at'
ArrayDoc == [NoFile EXCEPT !.kind = "array"]

\* JSON objects that are not what DataCache.set writes: a field missing, or
\* an 'expires_at' that is no timestamp (a string fromisoformat rejects, a
\* number)
MissingData(f) == [f EXCEPT !.keys = f.keys \ {"data"}]
MissingExpiresAt(f) == [f EXCEPT !.keys = f.keys \ {"expires_at"}]
BadExpiresAt(f) == [f EXCEPT !.expires_at = [tag |-> "str", t |-> 0]]
NumericExpiresAt(f) == [f EXCEPT !.expires_at = [tag |-> "number", t |-> 0]]

\* cache keys, as sequences of characters
Keys == {<<"/", ":">>, <<"_", "_">>, <<"n", "r">>}

\* key.replace('/', '_').replace(':', '_')
safe_key(key) ==
    [i \in DOMAIN key |-> IF key[i] \in {"/", ":"} THEN "_" ELSE key[i]]

\* DataCache._get_cache_path (cache_dir and the ".json" suffix are fixed)
get_cache_path(key) == safe_key(key)

FileNames == {get_cache_path(k) : k \in Keys}

\* expired, measured from cached_at instead of expires_at
expired_ByCachedAt(f, clock) == clock > f.cached_at

\* expired, with the boundary instant counted as expired
expired_AtBoundary(f, clock) == clock >= fromisoformat(f.expires_at).t

\* the freshness test of DataCache.get: datetime.now() > expires_at
expired(f, clock) == clock > fromisoformat(f.expires_at).t

\* get without the cleanup of its except clause: a file that is not JSON
\* stays where it is
get_KeepsCorrupt(fs, key, ignore_ttl, clock) ==
    LET path == get_cache_path(key)
        f == fs[path]
        unlinked == [fs EXCEPT ![path] = NoFile]
        absent == [exc |-> "none", val |-> None, files |-> fs]
        purged == [exc |-> "none", val |-> None, files |-> unlinked]
        expires == fromisoformat(f.expires_at)
    IN  CASE f.kind = "nofile" -> absent
          [] f.kind = "denied" -> [absent EXCEPT !.exc = "PermissionError"]
          [] f.kind = "garbage" -> absent
          [] f.kind = "number" -> [absent EXCEPT !.exc = "TypeError"]
          [] f.kind = "array" -> absent
          [] OTHER ->
               IF "data" \notin f.keys \/ "expires_at" \notin f.keys
               THEN absent
               ELSE IF ~ignore_ttl /\ expires.exc = "ValueError"
               THEN purged
               ELSE IF ~ignore_ttl /\ expires.exc = "TypeError"
               THEN [absent EXCEPT !.exc = "TypeError"]
               ELSE IF ~ignore_ttl /\ expired(f, clock)
               THEN absent
               ELSE [absent EXCEPT !.val = JsonDecode(f.data)]

\* DataCache.get: the value returned (None: absent) or the exception that
\* escapes, and the files afterwards
get(fs, key, ignore_ttl, clock) ==
    LET path == get_cache_path(key)
        f == fs[path]
        unlinked == [fs EXCEPT ![path] = NoFile]
        absent == [exc |-> "none", val |-> None, files |-> fs]
        purged == [exc |-> "none", val |-> None, files |-> unlinked]
        expires == fromisoformat(f.expires_at)
    IN  CASE f.kind = "nofile" -> absent
          [] f.kind = "denied" -> [absent EXCEPT !.exc = "PermissionError"]
          [] f.kind = "garbage" -> purged
          [] f.kind = "number" -> [absent EXCEPT !.exc = "TypeError"]
          [] f.kind = "array" -> absent
          [] OTHER ->
               IF "data" \notin f.keys \/ "expires_at" \notin f.keys
               THEN absent
               ELSE IF ~ignore_ttl /\ expires.exc = "ValueError"
               THEN purged
               ELSE IF ~ignore_ttl /\ expires.exc = "TypeError"
               THEN [absent EXCEPT !.exc = "TypeError"]
               ELSE IF ~ignore_ttl /\ expired(f, clock)
               THEN absent
               ELSE [absent EXCEPT !.val = JsonDecode(f.data)]

\* set called without the ttl: the default of 3600 seconds applies
set_DefaultTtl(fs, ok, key, data, seconds, clock) ==
    LET path == get_cache_path(key)
    IN  IF ~ok THEN fs
        ELSE IF ~Serializable(data) THEN [fs EXCEPT ![path] = Garbage]
        ELSE [fs EXCEPT ![path] = Entry(data, clock, 3600)]

\* DataCache.set: the files afterwards. A payload json.dump cannot write
\* (TypeError, or ValueError for a circular reference) leaves the file
\* truncated after open(path, 'w')
set(fs, ok, key, data, seconds, clock) ==
    LET path == get_cache_path(key)
    IN  IF ~ok THEN fs
        ELSE IF ~Serializable(data) THEN [fs EXCEPT ![path] = Garbage]
        ELSE [fs EXCEPT ![path] = Entry(data, clock, seconds)]

\* DataCache.set: the exception that escapes it. open() comes first, and its
\* OSError is caught; the TypeError of json.dump is caught; the ValueError
\* json.dump raises on a circular reference is not
set_raises(ok, data) ==
    IF ok /\ data.tag = "cyclic" THEN "ValueError" ELSE "none"

\* DataCache.is_valid: the bool returned, or the exception that escapes
is_valid(fs, key, clock) ==
    LET f == fs[get_cache_path(key)]
        answer(b) == [exc |-> "none", val |-> b]
        expires == fromisoformat(f.expires_at)
    IN  CASE f.kind = "nofile" -> answer(FALSE)
          [] f.kind = "denied" -> [exc |-> "PermissionError", val |-> FALSE]
          [] f.kind = "garbage" -> answer(FALSE)
          [] f.kind = "number" -> [exc |-> "TypeError", val |-> FALSE]
          [] f.kind = "array" -> answer(FALSE)
          [] OTHER ->
               IF "expires_at" \notin f.keys THEN answer(FALSE)
               ELSE IF expires.exc = "ValueError" THEN answer(FALSE)
               ELSE IF expires.exc = "TypeError"
               THEN [exc |-> "TypeError", val |-> FALSE]
               ELSE answer(clock <= expires.t)

\* the *.json files in the cache directory
Existing(fs) == {n \in DOMAIN fs : fs[n].kind \notin {"nofile", "denied"}}

\* the orders in which glob can list a set of files
Orders(S) ==
    {o \in [1..Cardinality(S) -> S] : \A i, j \in DOMAIN o : i # j => o[i] # o[j]}

\* the loop of DataCache.clear from the i-th file of the listing on: the
\* first unlink that raises OSError ends the loop, the try being around it
RECURSIVE unlink_from(_, _, _, _)
unlink_from(fs, order, failing, i) ==
    IF i > Len(order) THEN fs
    ELSE IF order[i] \in failing THEN fs
    ELSE unlink_from([fs EXCEPT ![order[i]] = NoFile], order, failing, i + 1)

\* DataCache.clear: the files afterwards
clear(fs, ok, order, failing) ==
    IF ~ok THEN fs ELSE unlink_from(fs, order, failing, 1)

\* DataCache.clear: the exception that escapes it. cache_dir.exists() is
\* outside the try, and raises when the directory may not be looked up
clear_raises(fs) ==
    IF \E n \in DOMAIN fs : fs[n].kind = "denied" THEN "PermissionError" ELSE "none"

(***************************************************************************)
(* Results and exceptions                                                  *)
(***************************************************************************)
NoException == [type |-> "none", code |-> 0, attempt |-> 0]

Exception(type, code, attempt) == [type |-> type, code |-> code, attempt |-> attempt]

\* found, held: the kind of file the operation found under its key and the
\* payload in it; failed: the files whose unlink failed during the operation
NoOp ==
    [name |-> "none", key |-> <<>>, data |-> None, ttl |-> 0,
     ignore_ttl |-> FALSE, at |-> 0, found |-> "nofile", held |-> None,
     failed |-> {}]

\* the payload in a file: the 'data' of a JSON object that has one
Held(f) ==
    IF f.kind = "object" /\ "data" \in f.keys THEN JsonDecode(f.data) ELSE None

NoRet == [kind |-> "none", val |-> None, exc |-> NoException, src |-> "none"]

Return(val, src) == [kind |-> "return", val |-> val, exc |-> NoException, src |-> src]

Raise(exc) == [kind |-> "raise", val |-> None, exc |-> exc, src |-> "none"]

(***************************************************************************)
(* Provider documents as the resource operations see them                  *)
(***************************************************************************)
\* One element of a collection (a standing, a race, a result). It is a
\* well-formed element but for one thing: `shape` is the JSON type of the
\* element itself, and the field `field` has the JSON value `value`:
\*   "ok"       what the provider documents (a numeric string, an object...)
\*   "ago1"     a season, well-formed, the year before the current one
\*   "ago2"     a season, well-formed, two years before the current one
\*   "old"      a season, well-formed, three years before the current one
\*   "missing"  the key is absent
\*   "null"     null
\*   "text"     a string that cannot be converted
\*   "number"   a JSON number
\*   "huge"     a JSON number json.load reads as float('inf'), as 1e999
\*   "array"    a non-empty array
\*   "object"   an object without the expected keys
\* `results` are the elements nested in a race.
Element(shape, field, value, results) ==
    [shape |-> shape, field |-> field, value |-> value, results |-> results]

\* the values the provider documents
Documented == {"ok", "ago1", "ago2", "old"}

\* the JSON value of a field of an element
FieldOf(e, name) == IF e.field = name THEN e.value ELSE "ok"

\* what _get_cached_or_fetch gives a resource operation: nothing yet, a
\* RequestException, or a document: an envelope without 'MRData' (tag
\* "none"), or one with the collection `tag` holding `elems`
NoFetch == [kind |-> "none", tag |-> "none", elems |-> <<>>]
FetchFailed == [kind |-> "raise", tag |-> "none", elems |-> <<>>]
Document(tag, elems) == [kind |-> "return", tag |-> tag, elems |-> elems]

\* what a resource operation returns or raises; records are named by the
\* place of their element in the document; warnings counts logger.warning;
\* years is the argument of get_circuit_history, 0 for the other operations
NoParse ==
    [op |-> "none", kind |-> "none", records |-> <<>>, warnings |-> 0, exc |-> "none",
     years |-> 0]

Record(race, element) == [race |-> race, element |-> element]

\* what predict_next_race ends in: a PredictionResult with a number of
\* predictions and a data completeness in fifths, or a PredictionError
NoResult ==
    [kind |-> "none", error_type |-> "none", predictions |-> 0, data_completeness |-> 0]

PredictionResult(predictions, fifths) ==
    [kind |-> "result", error_type |-> "none", predictions |-> predictions,
     data_completeness |-> fifths]

PredictionError(error_type) ==
    [kind |-> "error", error_type |-> error_type, predictions |-> 0,
     data_completeness |-> 0]

\* one DriverStanding as analyze looks at it: whether driver.driver_id and
\* constructor.constructor_id are non-empty
Standing(driver, constructor) == [driver |-> driver, constructor |-> constructor]

Standings == {Standing(d, c) : d, c \in BOOLEAN}

\* a run of predict_next_race: the step it is at, top_n, the fetcher
\* operations it has called and those that raised, the collections it
\* holds (the driver standings, and the length of each other list), and
\* its result
NoRun ==
    [step |-> "idle", top_n |-> 0, fetches |-> <<>>, raised |-> {},
     driver_standings |-> <<>>, constructor_standings |-> 0, season_results |-> 0,
     qualifying_results |-> 0, circuit_history |-> 0, result |-> NoResult]

(***************************************************************************)
(* Response parsers                                                        *)
(***************************************************************************)
\* the first exception of a sequence of evaluations, "none" without one
first(excs) ==
    IF \A i \in DOMAIN excs : excs[i] = "none" THEN "none"
    ELSE excs[CHOOSE i \in DOMAIN excs :
                  excs[i] # "none" /\ \A j \in 1..(i - 1) : excs[j] = "none"]

\* the loop `for field in required_fields: if field not in e: raise ValueError`
required(e, fields) ==
    CASE e.shape \in {"null", "number"} -> "TypeError"
      [] e.shape \in {"string", "array"} -> "ValueError"
      [] \E f \in fields : FieldOf(e, f) = "missing" -> "ValueError"
      [] OTHER -> "none"

\* int(v)
int_of(v) ==
    CASE v \in Documented \cup {"number"} -> "none"
      [] v = "text" -> "ValueError"
      [] v = "huge" -> "OverflowError"
      [] OTHER -> "TypeError"

\* float(v)
float_of(v) ==
    CASE v \in Documented \cup {"number", "huge"} -> "none"
      [] v = "text" -> "ValueError"
      [] OTHER -> "TypeError"

\* try: ... except (ValueError, TypeError) as e: raise ValueError(...)
wrap(exc) == IF exc \in {"ValueError", "TypeError"} THEN "ValueError" ELSE exc

\* the required-field loop of a parser of a nested object, given the JSON
\* value found where the object should be
nested(v) ==
    CASE v \in Documented -> "none"
      [] v \in {"null", "number", "huge"} -> "TypeError"
      [] OTHER -> "ValueError"

parse_circuit(v) == nested(v)

parse_driver(v) == nested(v)

parse_constructor(v) == nested(v)

\* the date/time block of _parse_race: the f-string takes any date, rstrip
\* exists on strings only, fromisoformat raises ValueError
date_time(e) ==
    CASE FieldOf(e, "time") \in {"null", "number", "huge", "array", "object"} -> "AttributeError"
      [] FieldOf(e, "time") = "text" -> "ValueError"
      [] FieldOf(e, "date") # "ok" -> "ValueError"
      [] OTHER -> "none"

parse_race(e) ==
    first(<<required(e, {"season", "round", "raceName", "Circuit", "date"}),
            wrap(date_time(e)),
            int_of(FieldOf(e, "season")),
            int_of(FieldOf(e, "round")),
            parse_circuit(FieldOf(e, "Circuit"))>>)

parse_race_result(e) ==
    first(<<required(e, {"Driver", "Constructor", "position", "points", "grid",
                         "laps", "status"}),
            wrap(first(<<parse_driver(FieldOf(e, "Driver")),
                         parse_constructor(FieldOf(e, "Constructor")),
                         int_of(FieldOf(e, "position")),
                         float_of(FieldOf(e, "points")),
                         int_of(FieldOf(e, "grid")),
                         int_of(FieldOf(e, "laps"))>>))>>)

parse_qualifying_result(e) ==
    first(<<required(e, {"Driver", "Constructor", "position"}),
            wrap(first(<<parse_driver(FieldOf(e, "Driver")),
                         parse_constructor(FieldOf(e, "Constructor")),
                         int_of(FieldOf(e, "position"))>>))>>)

\* standing_data['Constructors'][0], handed to _parse_constructor
first_constructor(v) ==
    CASE v \in {"ok", "array"} -> "none"
      [] v = "object" -> "KeyError"
      [] v = "text" -> "ValueError"
      [] OTHER -> "TypeError"

parse_driver_standing(e) ==
    first(<<required(e, {"Driver", "Constructors", "position", "points", "wins"}),
            IF FieldOf(e, "Constructors") \in {"null", "empty"}
            THEN "ValueError" ELSE "none",
            wrap(first(<<parse_driver(FieldOf(e, "Driver")),
                         first_constructor(FieldOf(e, "Constructors")),
                         int_of(FieldOf(e, "position")),
                         float_of(FieldOf(e, "points")),
                         int_of(FieldOf(e, "wins"))>>))>>)

parse_constructor_standing(e) ==
    first(<<required(e, {"Constructor", "position", "points", "wins"}),
            wrap(first(<<parse_constructor(FieldOf(e, "Constructor")),
                         int_of(FieldOf(e, "position")),
                         float_of(FieldOf(e, "points")),
                         int_of(FieldOf(e, "wins"))>>))>>)

(***************************************************************************)
(* Resource operations                                                     *)
(***************************************************************************)
\* the exceptions the handler around one element catches
Caught == {"KeyError", "ValueError", "TypeError"}

\* the state of a collection loop: the records appended, the warnings
\* logged, the exception that left the loop
Loop(records, warnings, exc) ==
    [records |-> records, warnings |-> warnings, exc |-> exc]

\* an except clause around an element without its logger.warning
skipped_Silently(acc) == acc

\* the except clause around an element: logger.warning, continue
skipped(acc) == [acc EXCEPT !.warnings = @ + 1]

\* one pass of a loop over elements for the outcome x of parsing the
\* element: append, skip with a warning, or let the exception go
one_element(acc, x, record) ==
    IF x = "none" THEN [acc EXCEPT !.records = Append(@, record)]
    ELSE IF x \in Caught THEN skipped(acc)
    ELSE [acc EXCEPT !.exc = x]

\* for e in elems: try: append(parse(e)) except ...: continue, from the
\* i-th element on; excs[i] is the outcome of the parser on the i-th
RECURSIVE elements_from(_, _, _, _)
elements_from(excs, race, i, acc) ==
    IF i > Len(excs) \/ acc.exc # "none" THEN acc
    ELSE elements_from(excs, race, i + 1, one_element(acc, excs[i], Record(race, i)))

\* datetime.now().year
current_year == 2026

\* race.season, the int of the 'season' of a race that _parse_race accepted
season_of(v) ==
    CASE v = "ago1" -> current_year - 1
      [] v = "ago2" -> current_year - 2
      [] v = "old" -> current_year - 3
      [] OTHER -> current_year

\* a cutoff that leaves the season `years` before the current one out
cutoff_year_Exclusive(years) == current_year - years + 1

\* cutoff_year = current_year - years
cutoff_year(years) == current_year - years

\* the body of the loop over races for the i-th race: _parse_race, then the
\* loop over its results; with `cutoff` (get_circuit_history) only if
\* race.season >= cutoff_year
one_race(races, i, acc, cutoff, years) ==
    LET x == parse_race(races[i])
        results == [j \in DOMAIN races[i].results |-> parse_race_result(races[i].results[j])]
    IN  IF x = "none"
        THEN IF cutoff /\ ~(season_of(FieldOf(races[i], "season")) >= cutoff_year(years))
             THEN acc
             ELSE elements_from(results, i, 1, acc)
        ELSE IF x \in Caught THEN skipped(acc)
        ELSE [acc EXCEPT !.exc = x]

RECURSIVE races_from(_, _, _, _, _)
races_from(races, i, acc, cutoff, years) ==
    IF i > Len(races) \/ acc.exc # "none" THEN acc
    ELSE races_from(races, i + 1, one_race(races, i, acc, cutoff, years), cutoff, years)

\* what the operation `name` ends in after its loops
Outcome(name, acc) ==
    [op |-> name, kind |-> IF acc.exc = "none" THEN "return" ELSE "raise",
     records |-> IF acc.exc = "none" THEN acc.records ELSE <<>>,
     warnings |-> acc.warnings, exc |-> acc.exc, years |-> 0]

\* data['MRData'].get('RaceTable', {}).get('Races', [])
Races(f) == IF f.tag = "Races" THEN f.elems ELSE <<>>

get_next_race_ReturnsNothing(f) ==
    LET races == Races(f)
        ok(n) == Outcome("get_next_race", Loop(<<Record(1, 0)>>, n, "none"))
        fail(x) == Outcome("get_next_race", Loop(<<>>, 0, x))
        fields == required(races[1], {"season", "round", "raceName", "Circuit", "date"})
        x == parse_race(races[1])
    IN  IF f.kind = "raise" THEN Outcome("get_next_race", Loop(<<>>, 0, "none"))
        ELSE IF f.tag = "none" THEN fail("ValueError")
        ELSE IF races = <<>> THEN fail("ValueError")
        ELSE IF fields # "none" THEN fail("ValueError")
        ELSE IF x = "none" THEN ok(0)
        ELSE IF x \in {"KeyError", "IndexError", "TypeError"} THEN fail("ValueError")
        ELSE fail(x)

\* get_next_race: the Race of the first element of the race table, or the
\* exception raised
get_next_race(f) ==
    LET races == Races(f)
        ok(n) == Outcome("get_next_race", Loop(<<Record(1, 0)>>, n, "none"))
        fail(x) == Outcome("get_next_race", Loop(<<>>, 0, x))
        fields == required(races[1], {"season", "round", "raceName", "Circuit", "date"})
        x == parse_race(races[1])
    IN  IF f.kind = "raise" THEN fail("ValueError")
        ELSE IF f.tag = "none" THEN fail("ValueError")
        ELSE IF races = <<>> THEN fail("ValueError")
        ELSE IF fields # "none" THEN fail("ValueError")
        ELSE IF x = "none" THEN ok(0)
        ELSE IF x \in {"KeyError", "IndexError", "TypeError"} THEN fail("ValueError")
        ELSE fail(x)

get_current_season_results(f) ==
    IF f.kind = "raise"
    THEN Outcome("get_current_season_results", Loop(<<>>, 0, "none"))
    ELSE IF f.tag = "none"
    THEN Outcome("get_current_season_results", Loop(<<>>, 1, "none"))
    ELSE Outcome("get_current_season_results",
                 races_from(Races(f), 1, Loop(<<>>, 0, "none"), FALSE, 0))

\* the two standings operations, which differ in the collection they read
\* and in the parser of its elements
standings(name, tag, f, excs) ==
    IF f.kind = "raise" THEN Outcome(name, Loop(<<>>, 0, "none"))
    ELSE IF f.tag # tag THEN Outcome(name, Loop(<<>>, 1, "none"))
    ELSE Outcome(name, elements_from(excs, 0, 1, Loop(<<>>, 0, "none")))

get_driver_standings(f) ==
    standings("get_driver_standings", "DriverStandings", f,
              [i \in DOMAIN f.elems |-> parse_driver_standing(f.elems[i])])

get_constructor_standings(f) ==
    standings("get_constructor_standings", "ConstructorStandings", f,
              [i \in DOMAIN f.elems |-> parse_constructor_standing(f.elems[i])])

\* get_qualifying_results: the qualifying results of the first race only
get_qualifying_results(f) ==
    LET races == Races(f)
        x == parse_race(races[1])
        results == [j \in DOMAIN races[1].results |->
                        parse_qualifying_result(races[1].results[j])]
        start == Loop(<<>>, 0, "none")
    IN  IF f.kind = "raise" \/ f.tag = "none"
        THEN Outcome("get_qualifying_results", Loop(<<>>, 1, "none"))
        ELSE IF races = <<>> THEN Outcome("get_qualifying_results", start)
        ELSE IF x = "none"
        THEN Outcome("get_qualifying_results", elements_from(results, 1, 1, start))
        ELSE IF x \in Caught THEN Outcome("get_qualifying_results", skipped(start))
        ELSE Outcome("get_qualifying_results", Loop(<<>>, 0, x))

\* get_circuit_history without the except clause around its fetch
get_circuit_history_Propagates(f, years) ==
    LET acc == IF f.kind = "raise" THEN Loop(<<>>, 0, "RequestException")
               ELSE IF f.tag = "none" THEN Loop(<<>>, 1, "none")
               ELSE races_from(Races(f), 1, Loop(<<>>, 0, "none"), TRUE, years)
    IN  [Outcome("get_circuit_history", acc) EXCEPT !.years = years]

\* get_circuit_history(circuit_id, years): the results of the races whose
\* season is not before the cutoff year
get_circuit_history(f, years) ==
    LET acc == IF f.kind = "raise" \/ f.tag = "none" THEN Loop(<<>>, 1, "none")
               ELSE races_from(Races(f), 1, Loop(<<>>, 0, "none"), TRUE, years)
    IN  [Outcome("get_circuit_history", acc) EXCEPT !.years = years]

(***************************************************************************)
(* One cache file under two callers                                        *)
(***************************************************************************)
\* the callers (threads or processes) that share a cache directory
Callers == {1, 2}

\* the number of write calls json.dump and the buffer of the file make for
\* the entry of a caller: the payloads differ in length
ChunksOf(c) == c

\* the i-th part of the entry that caller w writes
Cell(w, i) == [w |-> w, i |-> i]

\* the bytes a write past the end of a file leaves before it
Hole == Cell(0, 0)

\* the file of the key: whether the path exists, and its content
NoPath == [exists |-> FALSE, cells |-> <<>>]

\* a caller: its call (op) and the place it is at (at), whether the file it
\* holds open is still the one at the path, the offset of its next write,
\* what its json.load saw, the caller whose payload it returned (0: None),
\* and the calls it has made
IdleCaller ==
    [op |-> "none", at |-> "idle", attached |-> FALSE, offset |-> 0, saw |-> "none",
     val |-> 0, ops |-> 0]

\* lost: a purge has unlinked the file while a set had it open; sets: the
\* callers whose set has returned
NoRace ==
    [file |-> NoPath, callers |-> [c \in Callers |-> IdleCaller], lost |-> FALSE,
     sets |-> {}]

\* json.load accepts the content: it is the whole entry of one caller
Complete(cells) ==
    \E w \in Callers :
        /\ Len(cells) = ChunksOf(w)
        /\ \A i \in DOMAIN cells : cells[i] = Cell(w, i)

\* the caller whose entry the content is
OwnerOf(cells) == cells[1].w

\* f.write of one cell at an offset of a file opened with mode 'w'
write_at(cells, offset, cell) ==
    LET n == IF Len(cells) > offset + 1 THEN Len(cells) ELSE offset + 1
    IN  [i \in 1..n |-> IF i = offset + 1 THEN cell
                         ELSE IF i <= Len(cells) THEN cells[i]
                         ELSE Hole]

(***************************************************************************)
(* Initial state                                                           *)
(***************************************************************************)
\* what an earlier run of the program, or another program, left in the
\* cache directory
OldFiles ==
    {NoFile, Denied, Garbage, NumberDoc,
     Entry(Dict(1, TRUE), StartClock - 1, 1),
     MissingExpiresAt(Entry(Dict(1, TRUE), StartClock - 1, 1))}

Init ==
    /\ now = StartClock
    /\ dirOk \in BOOLEAN
    /\ files \in [FileNames -> OldFiles]
    /\ dirOk = TRUE => \A n \in FileNames : files[n] # Denied
    /\ dirOk = FALSE => \/ \A n \in FileNames : files[n] = NoFile
                        \/ \A n \in FileNames : files[n] = Denied
    /\ use_cache \in BOOLEAN
    /\ last_request_time = 0
    /\ last_dispatch = 0
    /\ pc = "idle"
    /\ cache_key = <<>>
    /\ ttl = 0
    /\ retry_count = 0
    /\ last_exception = NoException
    /\ attempts = 0
    /\ slept = <<>>
    /\ responses = <<>>
    /\ op = NoOp
    /\ ret = NoRet
    /\ calls = 0
    /\ fetched = NoFetch
    /\ parsed = NoParse
    /\ run = NoRun
    /\ second_last_request_time = 0
    /\ shared = NoRace

fetcherVars == <<use_cache, last_request_time, last_dispatch, pc, cache_key, ttl,
                 retry_count, last_exception, attempts, slept, responses, calls>>

parserVars == <<fetched, parsed>>

engineVars == <<run>>

poolVars == <<second_last_request_time>>

raceVars == <<shared>>

(***************************************************************************)
(* The clock                                                               *)
(***************************************************************************)
\* a second passes
Tick ==
    /\ now + TicksPerSecond <= StartClock + Horizon * TicksPerSecond
    /\ now' = now + TicksPerSecond
    /\ UNCHANGED <<parserVars, engineVars, poolVars, raceVars>>
    /\ UNCHANGED <<files, dirOk, op, ret, fetcherVars>>

(***************************************************************************)
(* Direct use of the cache                                                 *)
(***************************************************************************)
SetTtls == {-1, 0, 1}

CacheSet ==
    \E key \in Keys, data \in Payloads, seconds \in SetTtls :
        /\ pc = "idle"
        /\ files' = set(files, dirOk, key, data, seconds, now)
        /\ op' = [name |-> "set", key |-> key, data |-> data, ttl |-> seconds,
                  ignore_ttl |-> FALSE, at |-> now,
                  found |-> files[get_cache_path(key)].kind,
                  held |-> Held(files[get_cache_path(key)]), failed |-> {}]
        /\ ret' = IF set_raises(dirOk, data) = "none" THEN Return(None, "cache")
                  ELSE Raise(Exception(set_raises(dirOk, data), 0, 0))
        /\ UNCHANGED <<parserVars, engineVars, poolVars, raceVars>>
        /\ UNCHANGED <<now, dirOk, fetcherVars>>

CacheGet ==
    \E key \in Keys, ignore_ttl \in BOOLEAN :
        LET r == get(files, key, ignore_ttl, now)
        IN  /\ pc = "idle"
            /\ files' = r.files
            /\ op' = [name |-> "get", key |-> key, data |-> None, ttl |-> 0,
                      ignore_ttl |-> ignore_ttl, at |-> now,
                      found |-> files[get_cache_path(key)].kind,
                  held |-> Held(files[get_cache_path(key)]), failed |-> {}]
            /\ ret' = IF r.exc = "none" THEN Return(r.val, "cache")
                      ELSE Raise(Exception(r.exc, 0, 0))
            /\ UNCHANGED <<parserVars, engineVars, poolVars, raceVars>>
            /\ UNCHANGED <<now, dirOk, fetcherVars>>

CacheIsValid ==
    \E key \in Keys :
        LET r == is_valid(files, key, now)
        IN  /\ pc = "idle"
            /\ op' = [name |-> "is_valid", key |-> key, data |-> None, ttl |-> 0,
                      ignore_ttl |-> FALSE, at |-> now,
                      found |-> files[get_cache_path(key)].kind,
                  held |-> Held(files[get_cache_path(key)]), failed |-> {}]
            /\ ret' = IF r.exc = "none" THEN Return(PyBool(r.val), "cache")
                      ELSE Raise(Exception(r.exc, 0, 0))
            /\ UNCHANGED <<parserVars, engineVars, poolVars, raceVars>>
            /\ UNCHANGED <<now, files, dirOk, fetcherVars>>

\* clear(): glob lists the files in some order, and the unlink of some of
\* them fails with OSError
CacheClear ==
    \E order \in Orders(Existing(files)), failing \in SUBSET Existing(files) :
        /\ pc = "idle"
        /\ files' = clear(files, dirOk, order, failing)
        /\ op' = [name |-> "clear", key |-> <<>>, data |-> None, ttl |-> 0,
                  ignore_ttl |-> FALSE, at |-> now,
                  found |-> "nofile", held |-> None, failed |-> failing]
        /\ ret' = IF clear_raises(files) = "none" THEN Return(None, "cache")
                  ELSE Raise(Exception(clear_raises(files), 0, 0))
        /\ UNCHANGED <<parserVars, engineVars, poolVars, raceVars>>
        /\ UNCHANGED <<now, dirOk, fetcherVars>>

\* what is written into the file of an entry from outside this DataCache:
\* an entry by another process that uses the directory, or anything else
ForeignFiles(clock) ==
    LET e == Entry(Dict(2, TRUE), clock, 1)
    IN  {e, Garbage, NumberDoc, ArrayDoc, MissingData(e), MissingExpiresAt(e),
         BadExpiresAt(e), NumericExpiresAt(e)}

\* the backing storage of an entry is written directly
WriteFile ==
    \E n \in FileNames, f \in ForeignFiles(now) :
        /\ pc = "idle"
        /\ dirOk
        /\ files' = [files EXCEPT ![n] = f]
        /\ op' = [name |-> "write", key |-> n, data |-> None, ttl |-> 0,
                  ignore_ttl |-> FALSE, at |-> now,
                  found |-> files[n].kind, held |-> Held(files[n]), failed |-> {}]
        /\ ret' = NoRet
        /\ UNCHANGED <<parserVars, engineVars, poolVars, raceVars>>
        /\ UNCHANGED <<now, dirOk, fetcherVars>>

CacheNext == Tick \/ CacheSet \/ CacheGet

CacheInit == Init /\ use_cache

CacheSpec == CacheInit /\ [][CacheNext]_vars

\* a process that reads, checks and clears a cache directory which it does
\* not write itself
StoreNext == Tick \/ CacheGet \/ CacheIsValid \/ CacheClear \/ WriteFile

StoreSpec == CacheInit /\ [][StoreNext]_vars

\* a process that writes, reads and checks its entries over time
LifeNext == Tick \/ CacheSet \/ CacheGet \/ CacheIsValid

LifeSpec == CacheInit /\ [][LifeNext]_vars

(***************************************************************************)
(* The provider                                                            *)
(***************************************************************************)
InvalidJson == [tag |-> "invalid", v |-> 0, mr |-> FALSE]

\* bodies of 2xx responses: well-formed ones, an object without 'MRData',
\* an array, and text that is not JSON
ResponseBodies ==
    {JsonEncode(b) : b \in GoodBodies} \cup {JsonEncode(Dict(3, FALSE)), JsonEncode(List(1)), InvalidJson}

Statuses == {400, 404, 500}

NoBody == JsonEncode(None)

\* what one requests.get call can end in
Outcomes ==
    {[kind |-> "timeout", status |-> 0, body |-> NoBody],
     [kind |-> "connection", status |-> 0, body |-> NoBody]}
    \cup {[kind |-> "response", status |-> c, body |-> NoBody] : c \in Statuses}
    \cup {[kind |-> "response", status |-> 200, body |-> b] : b \in ResponseBodies}

\* the provider's answer as the spec classifies it
ResponseClass(o) ==
    CASE o.kind = "timeout" -> "timeout"
      [] o.kind = "connection" -> "connection"
      [] o.status \in 400..499 -> "4xx"
      [] o.status \in 500..599 -> "5xx"
      [] o.body \in {JsonEncode(b) : b \in GoodBodies} -> "ok"
      [] OTHER -> "malformed"

\* what the model remembers of an answer: its class, its status and, for a
\* well-formed body, the body
Response(o) ==
    [class |-> ResponseClass(o), status |-> o.status,
     body |-> IF ResponseClass(o) = "ok" THEN o.body ELSE NoBody]

(***************************************************************************)
(* F1DataFetcher                                                           *)
(***************************************************************************)
\* _rate_limit: the clock and _last_request_time afterwards
rate_limit(clock, last) ==
    LET elapsed == clock - last
        sleep == IF elapsed < RATE_LIMIT_DELAY THEN RATE_LIMIT_DELAY - elapsed ELSE 0
    IN  [now |-> clock + sleep, last |-> clock + sleep]

\* the 4xx test without its upper bound
is_client_error_NoUpperBound(code) == 400 <= code

\* the 4xx test with its lower bound off by one
is_client_error_Above400(code) == 400 < code /\ code < 500

\* the 4xx test of _make_request's HTTPError handler
is_client_error(code) == 400 <= code /\ code < 500

\* attempt without the test for the envelope field 'MRData'
attempt_SkipsEnvelope(o, n) ==
    LET data == JsonDecode(o.body)
        failed(type, code) ==
            [ctl |-> "failed", data |-> None, exc |-> Exception(type, code, n)]
    IN  CASE o.kind = "timeout" -> failed("Timeout", 0)
          [] o.kind = "connection" -> failed("ConnectionError", 0)
          [] o.status >= 400 ->
               IF is_client_error(o.status)
               THEN [ctl |-> "raise", data |-> None,
                     exc |-> Exception("HTTPError", o.status, n)]
               ELSE failed("HTTPError", o.status)
          [] o.body = InvalidJson -> failed("RequestException", 0)
          [] data.tag # "dict" -> failed("RequestException", 0)
          [] OTHER -> [ctl |-> "return", data |-> data, exc |-> NoException]

\* the body of the while loop of _make_request for one outcome of
\* requests.get, with `n` the number of this attempt: the loop returns the
\* data, raises out of the function, or counts a failed attempt
attempt(o, n) ==
    LET data == JsonDecode(o.body)
        failed(type, code) ==
            [ctl |-> "failed", data |-> None, exc |-> Exception(type, code, n)]
    IN  CASE o.kind = "timeout" -> failed("Timeout", 0)
          [] o.kind = "connection" -> failed("ConnectionError", 0)
          [] o.status >= 400 ->
               IF is_client_error(o.status)
               THEN [ctl |-> "raise", data |-> None,
                     exc |-> Exception("HTTPError", o.status, n)]
               ELSE failed("HTTPError", o.status)
          \* response.json() raised, or the structure checks raised ValueError:
          \* the RequestException raised at line 107 is raised inside the outer
          \* try, and its `except requests.RequestException` clause catches it
          [] o.body = InvalidJson -> failed("RequestException", 0)
          [] data.tag # "dict" -> failed("RequestException", 0)
          [] ~data.mr -> failed("RequestException", 0)
          [] OTHER -> [ctl |-> "return", data |-> data, exc |-> NoException]

\* the backoff computed before retry_count is incremented
backoff_FromZero(count) == 2 ^ (count - 1)

\* time.sleep(2 ** retry_count), in seconds
backoff(count) == 2 ^ count

FetchTtls == {1}

\* the keys the fetcher is called with
FetchKeys == {<<"/", ":">>, <<"n", "r">>}

FetchOp(key) ==
    [name |-> "fetch", key |-> key, data |-> None, ttl |-> 0,
     ignore_ttl |-> FALSE, at |-> now, found |-> "nofile", held |-> None,
     failed |-> {}]

\* _get_cached_or_fetch without its opening cache read
first_read_Skipped(key) == [exc |-> "none", val |-> None, files |-> files]

\* the cache read that opens _get_cached_or_fetch (lines 164-172)
first_read(key) ==
    IF use_cache THEN get(files, key, FALSE, now)
    ELSE [exc |-> "none", val |-> None, files |-> files]

\* _get_cached_or_fetch, cache hit: returns without a request
FetchHit ==
    \E key \in FetchKeys, seconds \in FetchTtls :
        LET r == first_read(key)
        IN  /\ pc = "idle"
            /\ calls < MaxCalls
            /\ r.exc = "none" /\ r.val # None
            /\ files' = r.files
            /\ ret' = Return(r.val, "hit")
            /\ op' = FetchOp(key)
            /\ calls' = calls + 1
            /\ cache_key' = key
            /\ ttl' = seconds
            /\ retry_count' = 0
            /\ last_exception' = NoException
            /\ slept' = <<>>
            /\ responses' = <<>>
            /\ UNCHANGED <<parserVars, engineVars, poolVars, raceVars>>
            /\ UNCHANGED <<now, dirOk, use_cache, last_request_time, last_dispatch,
                           pc, attempts>>

\* _get_cached_or_fetch, cache miss: _make_request starts (rate limit,
\* retry_count = 0) and dispatches its first attempt
FetchMiss ==
    \E key \in FetchKeys, seconds \in FetchTtls :
        LET r == first_read(key)
            rl == rate_limit(now, last_request_time)
        IN  /\ pc = "idle"
            /\ calls < MaxCalls
            /\ ~(r.exc = "none" /\ r.val # None)
            /\ files' = r.files
            /\ now' = rl.now
            /\ last_request_time' = rl.last
            /\ last_dispatch' = rl.now
            /\ pc' = "request"
            /\ cache_key' = key
            /\ ttl' = seconds
            /\ retry_count' = 0
            /\ last_exception' = NoException
            /\ slept' = <<>>
            /\ responses' = <<>>
            /\ ret' = NoRet
            /\ op' = FetchOp(key)
            /\ calls' = calls + 1
            /\ UNCHANGED <<parserVars, engineVars, poolVars, raceVars>>
            /\ UNCHANGED <<dirOk, use_cache, attempts>>

\* the fallback that stores the stale payload again, with a new expiry
fallback_Refreshes(e) ==
    LET r == get(files, cache_key, TRUE, now)
    IN  IF ~use_cache THEN [files |-> files, ret |-> Raise(e)]
        ELSE IF r.exc = "none" /\ r.val # None
        THEN [files |-> set(r.files, dirOk, cache_key, r.val, ttl, now),
              ret |-> Return(r.val, "stale")]
        ELSE [files |-> r.files, ret |-> Raise(e)]

\* the fallback that reads the cache whether or not caching is enabled
fallback_AlwaysReads(e) ==
    LET r == get(files, cache_key, TRUE, now)
    IN  IF r.exc = "none" /\ r.val # None
        THEN [files |-> r.files, ret |-> Return(r.val, "stale")]
        ELSE [files |-> r.files, ret |-> Raise(e)]

\* the fallback reading the cache without ignore_ttl
fallback_RespectsTtl(e) ==
    LET r == get(files, cache_key, FALSE, now)
    IN  IF ~use_cache THEN [files |-> files, ret |-> Raise(e)]
        ELSE IF r.exc = "none" /\ r.val # None
        THEN [files |-> r.files, ret |-> Return(r.val, "stale")]
        ELSE [files |-> r.files, ret |-> Raise(e)]

\* the fallback without the try/except around the stale read
fallback_Unguarded(e) ==
    LET r == get(files, cache_key, TRUE, now)
    IN  IF ~use_cache THEN [files |-> files, ret |-> Raise(e)]
        ELSE IF r.exc # "none"
        THEN [files |-> r.files, ret |-> Raise(Exception(r.exc, 0, 0))]
        ELSE IF r.val # None
        THEN [files |-> r.files, ret |-> Return(r.val, "stale")]
        ELSE [files |-> r.files, ret |-> Raise(e)]

\* the except branch of _get_cached_or_fetch (lines 189-203) for the
\* exception e of _make_request: the files and the result afterwards
fallback(e) ==
    LET r == get(files, cache_key, TRUE, now)
    IN  IF ~use_cache THEN [files |-> files, ret |-> Raise(e)]
        ELSE IF r.exc = "none" /\ r.val # None
        THEN [files |-> r.files, ret |-> Return(r.val, "stale")]
        ELSE [files |-> r.files, ret |-> Raise(e)]

\* one attempt fails and the loop goes on: backoff sleep, next attempt
AttemptRetry ==
    \E o \in Outcomes :
        LET a == attempt(o, Len(responses) + 1)
        IN  /\ pc = "request"
            /\ retry_count < MAX_RETRIES
            /\ a.ctl = "failed"
            /\ retry_count + 1 < MAX_RETRIES
            /\ attempts' = attempts + 1
            /\ responses' = Append(responses, Response(o))
            /\ last_exception' = a.exc
            /\ retry_count' = retry_count + 1
            /\ slept' = Append(slept, backoff(retry_count + 1))
            /\ now' = now + backoff(retry_count + 1) * TicksPerSecond
            /\ last_dispatch' = now'
            /\ UNCHANGED <<parserVars, engineVars, poolVars, raceVars>>
            /\ UNCHANGED <<files, dirOk, use_cache, last_request_time, pc,
                           cache_key, ttl, op, ret, calls>>

\* an attempt succeeds: _make_request returns, the body is written through
AttemptSuccess ==
    \E o \in Outcomes :
        LET a == attempt(o, Len(responses) + 1)
        IN  /\ pc = "request"
            /\ retry_count < MAX_RETRIES
            /\ a.ctl = "return"
            /\ attempts' = attempts + 1
            /\ responses' = Append(responses, Response(o))
            /\ files' = IF use_cache
                        THEN set(files, dirOk, cache_key, a.data, ttl, now)
                        ELSE files
            /\ ret' = Return(a.data, "live")
            /\ pc' = "idle"
            /\ UNCHANGED <<parserVars, engineVars, poolVars, raceVars>>
            /\ UNCHANGED <<now, dirOk, use_cache, last_request_time, last_dispatch,
                           cache_key, ttl, retry_count, last_exception, slept, op,
                           calls>>

\* _make_request raises (a 4xx, or the last attempt failed): stale fallback
AttemptFail ==
    \E o \in Outcomes :
        LET a == attempt(o, Len(responses) + 1)
            last == a.ctl = "failed" /\ retry_count + 1 >= MAX_RETRIES
            fb == fallback(a.exc)
        IN  /\ pc = "request"
            /\ retry_count < MAX_RETRIES
            /\ a.ctl = "raise" \/ last
            /\ attempts' = attempts + 1
            /\ responses' = Append(responses, Response(o))
            /\ last_exception' = IF last THEN a.exc ELSE last_exception
            /\ retry_count' = IF last THEN retry_count + 1 ELSE retry_count
            /\ files' = fb.files
            /\ ret' = fb.ret
            /\ pc' = "idle"
            /\ UNCHANGED <<parserVars, engineVars, poolVars, raceVars>>
            /\ UNCHANGED <<now, dirOk, use_cache, last_request_time, last_dispatch,
                           cache_key, ttl, slept, op, calls>>

Next ==
    \/ Tick
    \/ FetchHit
    \/ FetchMiss
    \/ AttemptRetry
    \/ AttemptSuccess
    \/ AttemptFail

Spec == Init /\ [][Next]_vars

(***************************************************************************)
(* Two fetchers in one process                                             *)
(***************************************************************************)
\* a second F1DataFetcher(use_cache = False) of the same process makes a
\* request that succeeds at its first attempt: _rate_limit against its own
\* _last_request_time, then requests.get
SecondRequest ==
    LET rl == rate_limit(now, second_last_request_time)
    IN  /\ pc = "idle"
        /\ calls < MaxCalls
        /\ calls' = calls + 1
        /\ now' = rl.now
        /\ second_last_request_time' = rl.last
        /\ last_dispatch' = rl.now
        /\ UNCHANGED <<parserVars, engineVars, raceVars>>
        /\ UNCHANGED <<files, dirOk, op, ret, use_cache, last_request_time, pc, cache_key,
                       ttl, retry_count, last_exception, attempts, slept, responses>>

\* neither fetcher caches, so that every request goes to the provider
PoolNext ==
    \/ Tick
    \/ FetchMiss
    \/ AttemptRetry
    \/ AttemptSuccess
    \/ AttemptFail
    \/ SecondRequest

PoolInit == Init /\ ~use_cache /\ ~dirOk

PoolSpec == PoolInit /\ [][PoolNext]_vars

(***************************************************************************)
(* DataCache.get and DataCache.set, step by step, under two callers         *)
(***************************************************************************)
RaceFrame == UNCHANGED <<now, files, dirOk, op, ret, fetcherVars, parserVars, engineVars, poolVars>>

CanCall(c) == shared.callers[c].at \in {"idle", "done"} /\ shared.callers[c].ops < MaxOps

\* set: open(cache_path, 'w') creates the file or truncates it
SetOpen(c) ==
    /\ CanCall(c)
    /\ shared' = [shared EXCEPT
                    !.file = [exists |-> TRUE, cells |-> <<>>],
                    !.callers[c] = [IdleCaller EXCEPT !.op = "set", !.at = "open",
                                                      !.attached = TRUE,
                                                      !.ops = shared.callers[c].ops + 1]]
    /\ RaceFrame

\* set: one write of json.dump reaches the file; after the last one the
\* file is closed and set returns
SetWrite(c) ==
    LET me == shared.callers[c]
        last == me.offset + 1 = ChunksOf(c)
    IN  /\ me.at = "open"
        /\ shared' = [shared EXCEPT
                        !.file.cells = IF me.attached
                                       THEN write_at(@, me.offset, Cell(c, me.offset + 1))
                                       ELSE @,
                        !.callers[c].offset = @ + 1,
                        !.callers[c].at = IF last THEN "done" ELSE "open",
                        !.sets = IF last THEN @ \cup {c} ELSE @]
        /\ RaceFrame

\* get: cache_path.exists()
GetExists(c) ==
    /\ CanCall(c)
    /\ shared' = [shared EXCEPT
                    !.callers[c] = [IdleCaller EXCEPT
                                       !.op = "get",
                                       !.at = IF shared.file.exists THEN "checked" ELSE "done",
                                       !.ops = shared.callers[c].ops + 1]]
    /\ RaceFrame

\* get: open and json.load; the entry is returned, or the except clause is
\* entered (FileNotFoundError is an OSError)
GetLoad(c) ==
    LET f == shared.file
        good == f.exists /\ Complete(f.cells)
    IN  /\ shared.callers[c].at = "checked"
        /\ shared' = [shared EXCEPT
                        !.callers[c].saw = IF ~f.exists THEN "missing"
                                           ELSE IF good THEN "entry" ELSE "partial",
                        !.callers[c].val = IF good THEN OwnerOf(f.cells) ELSE 0,
                        !.callers[c].at = IF good THEN "done" ELSE "failed"]
        /\ RaceFrame

\* get: the except clause: if cache_path.exists(): cache_path.unlink()
GetPurge(c) ==
    /\ shared.callers[c].at = "failed"
    /\ shared' = [shared EXCEPT
                    !.file = NoPath,
                    !.callers = [d \in Callers |->
                                    IF d = c THEN [@[d] EXCEPT !.at = "done"]
                                    ELSE [@[d] EXCEPT !.attached = FALSE]],
                    !.lost = @ \/ (shared.file.exists
                                   /\ \E d \in Callers : shared.callers[d].at = "open")]
    /\ RaceFrame

RaceNext ==
    \E c \in Callers :
        \/ SetOpen(c)
        \/ SetWrite(c)
        \/ GetExists(c)
        \/ GetLoad(c)
        \/ GetPurge(c)

RaceInit == Init /\ use_cache /\ dirOk /\ \A n \in FileNames : files[n] = NoFile

RaceSpec == RaceInit /\ [][RaceNext]_vars

(***************************************************************************)
(* The resource operations on the documents the provider can send          *)
(***************************************************************************)
SeqsUpTo(S, n) == UNION {[1..k -> S] : k \in 0..n}

WellFormed == Element("object", "none", "ok", <<>>)

Malformed(field, value) == Element("object", field, value, <<>>)

DriverStandingElements ==
    {WellFormed, Malformed("position", "missing"), Malformed("position", "text"),
     Malformed("position", "huge"), Malformed("Constructors", "object"),
     Element("null", "none", "ok", <<>>)}

ConstructorStandingElements ==
    {WellFormed, Malformed("wins", "missing"), Malformed("Constructor", "null"),
     Malformed("points", "huge")}

\* the results (or qualifying results) of one race
SomeResults == <<WellFormed, Malformed("laps", "missing"), WellFormed>>

\* races with those results, and a well-formed race with a result whose
\* position is 1e999
RaceElements ==
    {[e EXCEPT !.results = SomeResults] :
        e \in {WellFormed, Malformed("season", "ago1"), Malformed("season", "ago2"),
                Malformed("season", "old"), Malformed("date", "missing"),
                Malformed("time", "null"), Malformed("Circuit", "number"),
                Malformed("season", "huge")}}
    \cup {[WellFormed EXCEPT !.results = <<WellFormed, Malformed("position", "huge")>>]}

Documents ==
    {Document("none", <<>>)}
    \cup {Document("DriverStandings", es) : es \in SeqsUpTo(DriverStandingElements, MaxElems)}
    \cup {Document("ConstructorStandings", es) :
              es \in SeqsUpTo(ConstructorStandingElements, MaxElems)}
    \cup {Document("Races", es) : es \in SeqsUpTo(RaceElements, MaxElems)}

\* _get_cached_or_fetch hands the operation a document, or raises
Fetched ==
    \E f \in Documents \cup {FetchFailed} :
        /\ fetched = NoFetch
        /\ fetched' = f
        /\ UNCHANGED <<now, files, dirOk, op, ret, fetcherVars, parsed, engineVars, poolVars, raceVars>>

\* the rest of each operation: the envelope is unpacked and its elements
\* are parsed
GetNextRace ==
    /\ fetched # NoFetch
    /\ parsed = NoParse
    /\ parsed' = get_next_race(fetched)
    /\ UNCHANGED <<now, files, dirOk, op, ret, fetcherVars, fetched, engineVars, poolVars, raceVars>>

GetCurrentSeasonResults ==
    /\ fetched # NoFetch
    /\ parsed = NoParse
    /\ parsed' = get_current_season_results(fetched)
    /\ UNCHANGED <<now, files, dirOk, op, ret, fetcherVars, fetched, engineVars, poolVars, raceVars>>

GetDriverStandings ==
    /\ fetched # NoFetch
    /\ parsed = NoParse
    /\ parsed' = get_driver_standings(fetched)
    /\ UNCHANGED <<now, files, dirOk, op, ret, fetcherVars, fetched, engineVars, poolVars, raceVars>>

GetConstructorStandings ==
    /\ fetched # NoFetch
    /\ parsed = NoParse
    /\ parsed' = get_constructor_standings(fetched)
    /\ UNCHANGED <<now, files, dirOk, op, ret, fetcherVars, fetched, engineVars, poolVars, raceVars>>

GetQualifyingResults ==
    /\ fetched # NoFetch
    /\ parsed = NoParse
    /\ parsed' = get_qualifying_results(fetched)
    /\ UNCHANGED <<now, files, dirOk, op, ret, fetcherVars, fetched, engineVars, poolVars, raceVars>>

\* the `years` of history asked for
HistoryYears == {1, 2}

GetCircuitHistory ==
    /\ fetched # NoFetch
    /\ parsed = NoParse
    /\ \E years \in HistoryYears : parsed' = get_circuit_history(fetched, years)
    /\ UNCHANGED <<now, files, dirOk, op, ret, fetcherVars, fetched, engineVars, poolVars, raceVars>>

ParseNext ==
    \/ Fetched
    \/ GetNextRace
    \/ GetCurrentSeasonResults
    \/ GetDriverStandings
    \/ GetConstructorStandings
    \/ GetQualifyingResults
    \/ GetCircuitHistory

ParseInit == Init /\ ~use_cache /\ ~dirOk

ParseSpec == ParseInit /\ [][ParseNext]_vars

(***************************************************************************)
(* PredictionEngine and PredictionAnalyzer                                 *)
(***************************************************************************)
\* the exceptions a resource operation can raise: get_next_race its
\* ValueError, and every operation what escapes its parsers
FetcherErrors == {"ValueError", "OverflowError"}

Min(a, b) == IF a <= b THEN a ELSE b

\* analyze that gives up without constructor standings
analyze_NeedsConstructors(driver_standings, constructor_standings, recent_results, qualifying_results, circuit_history, top_n) ==
    LET predicted == {i \in DOMAIN driver_standings :
                          driver_standings[i].driver /\ driver_standings[i].constructor}
    IN  IF driver_standings = <<>> \/ constructor_standings = 0 THEN 0
        ELSE Min(Cardinality(predicted), top_n)

\* PredictionAnalyzer.analyze: the number of predictions it returns. Every
\* score is computed inside a try that falls back to a default, so a
\* standing is predicted unless one of its ids is empty; predictions[:top_n]
analyze(driver_standings, constructor_standings, recent_results, qualifying_results, circuit_history, top_n) ==
    LET predicted == {i \in DOMAIN driver_standings :
                          driver_standings[i].driver /\ driver_standings[i].constructor}
    IN  IF driver_standings = <<>> THEN 0
        ELSE Min(Cardinality(predicted), top_n)

\* PredictionEngine._calculate_data_completeness, in fifths
calculate_data_completeness(qualifying_results, circuit_history) ==
    3 + (IF qualifying_results > 0 THEN 1 ELSE 0) + (IF circuit_history > 0 THEN 1 ELSE 0)

TopNs == {1, 2}

\* an optional fetch that aborts the run when it raises
degrade_Aborts(x, next) == IF x = "none" THEN next ELSE "done"

\* try: ... except requests.RequestException / except Exception around an
\* optional fetch: whatever it raised (x), the run goes on to the step next
degrade(x, next) == next

\* PredictionEngine(top_n = n), and predict_next_race is entered
RunStart ==
    \E n \in TopNs :
        /\ run.step = "idle"
        /\ run' = [run EXCEPT !.step = "next_race", !.top_n = n]
        /\ UNCHANGED <<now, files, dirOk, op, ret, fetcherVars, parserVars, poolVars, raceVars>>

\* step 1: get_next_race returns the race or raises
RunNextRace ==
    \E x \in {"none"} \cup FetcherErrors :
        /\ run.step = "next_race"
        /\ run' = [run EXCEPT
                      !.fetches = Append(@, "get_next_race"),
                      !.raised = IF x = "none" THEN @ ELSE @ \cup {"get_next_race"},
                      !.step = IF x = "none" THEN "standings" ELSE "done",
                      !.result = CASE x = "none" -> @
                                   [] x = "ValueError" -> PredictionError("DataError")
                                   [] OTHER -> PredictionError("UnexpectedError")]
        /\ UNCHANGED <<now, files, dirOk, op, ret, fetcherVars, parserVars, poolVars, raceVars>>

\* step 2: both standings are fetched inside one try; then the driver
\* standings must not be empty
RunStandings ==
    \E ds \in SeqsUpTo(Standings, MaxStandings), cs \in 0..MaxRecords,
       x1, x2 \in {"none", "OverflowError"} :
        /\ run.step = "standings"
        /\ x1 # "none" => ds = <<>> /\ cs = 0 /\ x2 = "none"
        /\ x2 # "none" => cs = 0
        /\ run' = [run EXCEPT
                      !.fetches = IF x1 # "none" THEN Append(@, "get_driver_standings")
                                  ELSE @ \o <<"get_driver_standings",
                                               "get_constructor_standings">>,
                      !.raised = CASE x1 # "none" -> @ \cup {"get_driver_standings"}
                                   [] x2 # "none" -> @ \cup {"get_constructor_standings"}
                                   [] OTHER -> @,
                      !.driver_standings = ds,
                      !.constructor_standings = cs,
                      !.step = IF x1 = "none" /\ x2 = "none" /\ ds # <<>>
                               THEN "season_results" ELSE "done",
                      !.result = CASE x1 # "none" \/ x2 # "none" -> PredictionError("DataError")
                                   [] ds = <<>> -> PredictionError("MissingData")
                                   [] OTHER -> @]
        /\ UNCHANGED <<now, files, dirOk, op, ret, fetcherVars, parserVars, poolVars, raceVars>>

\* step 3: the season results; an exception counts as an empty list
RunSeasonResults ==
    \E n \in 0..MaxRecords, x \in {"none", "OverflowError"} :
        /\ run.step = "season_results"
        /\ x # "none" => n = 0
        /\ run' = [run EXCEPT
                      !.fetches = Append(@, "get_current_season_results"),
                      !.raised = IF x = "none" THEN @
                                 ELSE @ \cup {"get_current_season_results"},
                      !.season_results = n,
                      !.step = degrade(x, "qualifying")]
        /\ UNCHANGED <<now, files, dirOk, op, ret, fetcherVars, parserVars, poolVars, raceVars>>

\* step 4: the qualifying results; an exception counts as an empty list
RunQualifying ==
    \E n \in 0..MaxRecords, x \in {"none", "OverflowError"} :
        /\ run.step = "qualifying"
        /\ x # "none" => n = 0
        /\ run' = [run EXCEPT
                      !.fetches = Append(@, "get_qualifying_results"),
                      !.raised = IF x = "none" THEN @
                                 ELSE @ \cup {"get_qualifying_results"},
                      !.qualifying_results = n,
                      !.step = degrade(x, "circuit_history")]
        /\ UNCHANGED <<now, files, dirOk, op, ret, fetcherVars, parserVars, poolVars, raceVars>>

\* step 5: the circuit history; an exception counts as an empty list
RunCircuitHistory ==
    \E n \in 0..MaxRecords, x \in {"none", "OverflowError"} :
        /\ run.step = "circuit_history"
        /\ x # "none" => n = 0
        /\ run' = [run EXCEPT
                      !.fetches = Append(@, "get_circuit_history"),
                      !.raised = IF x = "none" THEN @
                                 ELSE @ \cup {"get_circuit_history"},
                      !.circuit_history = n,
                      !.step = degrade(x, "analyze")]
        /\ UNCHANGED <<now, files, dirOk, op, ret, fetcherVars, parserVars, poolVars, raceVars>>

\* steps 6 to 8: analyze, then the result, or AnalysisError without
\* predictions
RunAnalyze ==
    LET predictions == analyze(run.driver_standings, run.constructor_standings,
                               run.season_results, run.qualifying_results,
                               run.circuit_history, run.top_n)
    IN  /\ run.step = "analyze"
        /\ run' = [run EXCEPT
                      !.step = "done",
                      !.result = IF predictions = 0 THEN PredictionError("AnalysisError")
                                 ELSE PredictionResult(predictions,
                                          calculate_data_completeness(
                                              run.qualifying_results,
                                              run.circuit_history))]
        /\ UNCHANGED <<now, files, dirOk, op, ret, fetcherVars, parserVars, poolVars, raceVars>>

RunNext ==
    \/ RunStart
    \/ RunNextRace
    \/ RunStandings
    \/ RunSeasonResults
    \/ RunQualifying
    \/ RunCircuitHistory
    \/ RunAnalyze

RunInit == Init /\ ~use_cache /\ ~dirOk

RunSpec == RunInit /\ [][RunNext]_vars

(***************************************************************************)
(* A prediction run with the HTTP attempts of its fetches                  *)
(***************************************************************************)
\* the steps of predict_next_race that call the fetcher
FetchSteps == {"next_race", "standings", "season_results", "qualifying", "circuit_history"}

\* the fetcher operations a step calls: step 2 calls two of them
OperationsOf(step) == IF step = "standings" THEN 2 ELSE 1

\* a resource operation of the step the run is at calls _get_cached_or_fetch:
\* the cache answers (a hit, with caching enabled), or _make_request is
\* entered with retry_count = 0
RunFetch ==
    \E hit \in BOOLEAN :
        /\ run.step \in FetchSteps
        /\ pc = "idle"
        /\ calls - Len(run.fetches) < OperationsOf(run.step)
        /\ hit => use_cache
        /\ calls' = calls + 1
        /\ retry_count' = 0
        /\ pc' = IF hit THEN "idle" ELSE "request"
        /\ UNCHANGED <<parserVars, engineVars, poolVars, raceVars>>
        /\ UNCHANGED <<now, files, dirOk, op, ret, use_cache, last_request_time,
                       last_dispatch, cache_key, ttl, last_exception, attempts, slept,
                       responses>>

\* one pass of the while loop of _make_request: requests.get ends in the
\* outcome o; the loop returns, raises, or counts the failure and, with
\* retries left, sleeps and goes round again
RunAttempt ==
    \E o \in Outcomes :
        LET a == attempt(o, retry_count + 1)
            again == a.ctl = "failed" /\ retry_count + 1 < MAX_RETRIES
        IN  /\ run.step \in FetchSteps
            /\ pc = "request"
            /\ retry_count < MAX_RETRIES
            /\ attempts' = attempts + 1
            /\ retry_count' = IF a.ctl = "failed" THEN retry_count + 1 ELSE retry_count
            /\ now' = IF again THEN now + backoff(retry_count + 1) * TicksPerSecond ELSE now
            /\ pc' = IF again THEN "request" ELSE "idle"
            /\ UNCHANGED <<parserVars, engineVars, poolVars, raceVars>>
            /\ UNCHANGED <<files, dirOk, op, ret, use_cache, last_request_time,
                           last_dispatch, cache_key, ttl, last_exception, slept,
                           responses, calls>>

\* the collections of a run are empty or hold one record each: what they
\* hold decides the predictions, not the fetches and their attempts
Short(r) ==
    /\ Len(r.driver_standings) <= 1
    /\ r.constructor_standings <= 1
    /\ r.season_results <= 1
    /\ r.qualifying_results <= 1
    /\ r.circuit_history <= 1

\* the step Step of the run, taken when the operations it calls have
\* returned or raised: one _get_cached_or_fetch call for each of them
Returned(Step) ==
    /\ pc = "idle"
    /\ calls > Len(run.fetches)
    /\ Step
    /\ calls = Len(run'.fetches)
    /\ Short(run')

TermNext ==
    \/ RunStart
    \/ RunFetch
    \/ RunAttempt
    \/ Returned(RunNextRace)
    \/ Returned(RunStandings)
    \/ Returned(RunSeasonResults)
    \/ Returned(RunQualifying)
    \/ Returned(RunCircuitHistory)
    \/ RunAnalyze

TermInit == Init /\ use_cache /\ dirOk /\ \A n \in FileNames : files[n] = NoFile

\* every HTTP attempt ends, and the program goes on as long as it can
TermSpec == TermInit /\ [][TermNext]_vars /\ WF_vars(TermNext)

(***************************************************************************)
(* Vocabulary of the properties                                            *)
(***************************************************************************)
\* the file behind a key
FileOf(key) == files[get_cache_path(key)]

\* an entry as section 3 of the specification describes it: an object with
\* both 'data' and 'expires_at', the latter a timestamp
IsEntry(f) ==
    /\ f.kind = "object"
    /\ {"data", "expires_at"} \subseteq f.keys
    /\ f.expires_at.tag = "isostr"

ExpiresAt(f) == f.expires_at.t

\* what a read gave: the payload p, or absent, without raising and without
\* touching the files
Gave(r, p) == r.exc = "none" /\ r.val = p /\ r.files = files

\* the last operation was set(k, p, ttl), and the clock has not moved since
JustSet == op.name = "set" /\ op.at = now

(***************************************************************************)
(* C1  Cache round-trip                                                    *)
(***************************************************************************)
\* C1 as stated: for every key k and JSON-serializable payload p,
\* set(k, p, ttl) followed immediately by get(k) returns p unchanged.
C1_RoundTripAsStated ==
    (JustSet /\ Serializable(op.data)) => Gave(get(files, op.key, FALSE, now), op.data)

\* C1 amended: for every key k, every JSON value p (a dict with string keys,
\* a list) and every ttl > 0, when the cache directory exists,
\* set(k, p, ttl) followed immediately by get(k) returns p unchanged.
C1_RoundTrip ==
    (JustSet /\ op.data \in JsonValues /\ op.ttl > 0 /\ dirOk)
        => Gave(get(files, op.key, FALSE, now), op.data)

\* a get(k) that returned the payload a set(k, p, ttl > 0) stored at this instant
C1_Witness ==
    /\ op.name = "get" /\ ~op.ignore_ttl
    /\ ret.kind = "return" /\ ret.val \in JsonValues
    /\ IsEntry(FileOf(op.key))
    /\ FileOf(op.key).cached_at = now
    /\ FileOf(op.key).ttl > 0
    /\ FileOf(op.key).data = JsonEncode(ret.val)

(***************************************************************************)
(* C2  Expired entries                                                     *)
(***************************************************************************)
\* C2 as stated: for every entry written with ttl <= 0, or once the clock is
\* past the entry's expires_at, get(k) returns absent while
\* get(k, allow_expired = true) still returns the stored payload.
C2_ExpiredAsStated ==
    \A k \in Keys :
        (IsEntry(FileOf(k)) /\ (FileOf(k).ttl <= 0 \/ now > ExpiresAt(FileOf(k))))
            => /\ Gave(get(files, k, FALSE, now), None)
               /\ Gave(get(files, k, TRUE, now), JsonDecode(FileOf(k).data))

\* C2 amended: for every entry written with ttl < 0, or once the clock is
\* past the entry's expires_at, get(k) returns absent while
\* get(k, allow_expired = true) still returns the stored payload.
C2_Expired ==
    \A k \in Keys :
        (IsEntry(FileOf(k)) /\ (FileOf(k).ttl < 0 \/ now > ExpiresAt(FileOf(k))))
            => /\ Gave(get(files, k, FALSE, now), None)
               /\ Gave(get(files, k, TRUE, now), JsonDecode(FileOf(k).data))

\* a get(k, allow_expired = true) that returned the payload of an entry
\* written with a negative ttl, in the instant it was written
C2_Witness ==
    /\ op.name = "get" /\ op.ignore_ttl
    /\ IsEntry(FileOf(op.key))
    /\ FileOf(op.key).ttl < 0
    /\ FileOf(op.key).cached_at = now
    /\ ret.kind = "return" /\ ret.val # None
    /\ ret.val = JsonDecode(FileOf(op.key).data)
    /\ get(files, op.key, FALSE, now).val = None

(***************************************************************************)
(* Vocabulary of the fetcher's properties                                  *)
(***************************************************************************)
\* a _get_cached_or_fetch call has ended: ret is what it returned or raised
CallDone == pc = "idle" /\ op.name = "fetch"

\* this step starts a _get_cached_or_fetch call
CallStarts == pc = "idle" /\ calls' = calls + 1

Classes == [i \in DOMAIN responses |-> responses[i].class]

Retryable == {"timeout", "connection", "5xx"}

\* the request of the call ended in failure: _make_request raised
RequestFailed ==
    /\ CallDone
    /\ responses # <<>>
    /\ responses[Len(responses)].class # "ok"

\* the error the n-th attempt ends in, by the taxonomy of section 7
ErrorOf(r, n) ==
    CASE r.class = "timeout" -> Exception("Timeout", 0, n)
      [] r.class = "connection" -> Exception("ConnectionError", 0, n)
      [] r.class \in {"4xx", "5xx"} -> Exception("HTTPError", r.status, n)
      [] r.class = "malformed" -> Exception("RequestException", 0, n)
      [] OTHER -> NoException

(***************************************************************************)
(* C3  Stale fallback                                                      *)
(***************************************************************************)
\* C3: with caching enabled, whenever the live fetch fails (_make_request
\* raises) and an expired entry exists for the key, get_or_fetch returns
\* that stale payload instead of raising.
C3_StaleFallback ==
    (RequestFailed /\ use_cache /\ IsEntry(FileOf(op.key))
     /\ now > ExpiresAt(FileOf(op.key)))
        => ret = Return(JsonDecode(FileOf(op.key).data), "stale")

\* a call that served an expired entry after three failed attempts
C3_Witness ==
    /\ RequestFailed /\ use_cache
    /\ Len(responses) = 3
    /\ IsEntry(FileOf(op.key)) /\ now > ExpiresAt(FileOf(op.key))
    /\ ret.kind = "return" /\ ret.src = "stale"

(***************************************************************************)
(* C4  Two 5xx answers, then success                                       *)
(***************************************************************************)
\* C4: when the provider answers 5xx to the first two attempts and a
\* well-formed success to the third, the request goes on after each 5xx,
\* sleeps 2 s and then 4 s before the third attempt, and returns the body of
\* the third answer: three attempts, both backoff intervals slept.
C4_RetryThenSuccess ==
    /\ Classes = <<"5xx">>
           => pc = "request" /\ slept = <<2>>
              /\ now >= last_request_time + 2 * TicksPerSecond
    /\ Classes = <<"5xx", "5xx">>
           => pc = "request" /\ slept = <<2, 4>>
              /\ now >= last_request_time + (2 + 4) * TicksPerSecond
    /\ Classes = <<"5xx", "5xx", "ok">>
           => /\ CallDone
              /\ ret = Return(JsonDecode(responses[3].body), "live")
              /\ slept = <<2, 4>>
              /\ now >= last_request_time + (2 + 4) * TicksPerSecond

\* a request that returned the third answer after two 5xx answers
C4_Witness ==
    /\ Classes = <<"5xx", "5xx", "ok">>
    /\ ret.kind = "return" /\ ret.src = "live"
    /\ slept = <<2, 4>>

(***************************************************************************)
(* C5  A 4xx is never retried                                              *)
(***************************************************************************)
\* C5: on whichever attempt a 4xx is received, the request ends there: no
\* further attempt, no backoff sleep after it, and the error raised is that
\* attempt's HTTPError; a first answer of 404 makes exactly one attempt.
C5_ClientErrorNotRetried ==
    \A i \in DOMAIN responses :
        responses[i].class = "4xx"
            => /\ i = Len(responses)
               /\ CallDone
               /\ Len(slept) = i - 1
               /\ ret.src \in {"none", "stale"}
               /\ ret.kind = "raise"
                      => ret.exc = Exception("HTTPError", responses[i].status, i)
               /\ ~use_cache => ret.kind = "raise"

\* a request that raised the 404 of its first and only attempt
C5_Witness ==
    /\ CallDone
    /\ Len(responses) = 1
    /\ responses[1].class = "4xx" /\ responses[1].status = 404
    /\ ret = Raise(Exception("HTTPError", 404, 1))
    /\ slept = <<>>

(***************************************************************************)
(* C6  A malformed success response is not retried                         *)
(***************************************************************************)
\* C6: a malformed success response (not JSON, not a JSON object, or an
\* object without 'MRData') ends the request at that attempt: no backoff
\* sleep after it, no further attempt, the malformed-response error raised.
C6_MalformedNotRetried ==
    \A i \in DOMAIN responses :
        responses[i].class = "malformed"
            => /\ i = Len(responses)
               /\ CallDone
               /\ Len(slept) = i - 1
               /\ ret.kind = "raise"
                      => ret.exc = Exception("RequestException", 0, i)

(***************************************************************************)
(* C7  Attempt budget                                                      *)
(***************************************************************************)
\* C7: one request makes at most 3 HTTP attempts, whatever the answers; if
\* all three fail with retryable errors (timeout, connection failure, 5xx)
\* the request raises the error of the third attempt, not an earlier one.
C7_AttemptBudget ==
    /\ Len(responses) <= 3
    /\ attempts <= 3 * calls
    /\ (Len(responses) = 3 /\ \A i \in 1..3 : responses[i].class \in Retryable)
           => /\ CallDone
              /\ last_exception = ErrorOf(responses[3], 3)
              /\ ret.src \in {"none", "stale"}
              /\ ret.kind = "raise" => ret.exc = ErrorOf(responses[3], 3)
              /\ ~use_cache => ret.kind = "raise"

\* a request that raised its third error after a timeout, a 5xx and a
\* connection failure
C7_Witness ==
    /\ CallDone
    /\ Classes = <<"timeout", "5xx", "connection">>
    /\ ret = Raise(Exception("ConnectionError", 0, 3))

(***************************************************************************)
(* C8  Cache hit                                                           *)
(***************************************************************************)
\* C8: with caching enabled and an unexpired entry present for the key
\* (now <= expires_at), get_or_fetch returns the cached payload in one step:
\* no HTTP attempt, no rate-limit wait, _last_request_time unchanged.
C8_CacheHit ==
    [][(CallStarts /\ use_cache /\ IsEntry(FileOf(op'.key))
        /\ now <= ExpiresAt(FileOf(op'.key)))
           => /\ ret' = Return(JsonDecode(FileOf(op'.key).data), "hit")
              /\ pc' = "idle"
              /\ attempts' = attempts
              /\ responses' = <<>>
              /\ now' = now
              /\ last_request_time' = last_request_time
              /\ files' = files]_vars

\* a hit on an entry an earlier run left, after a request of this run
C8_Witness ==
    /\ CallDone /\ ret.kind = "return" /\ ret.src = "hit"
    /\ IsEntry(FileOf(op.key))
    /\ FileOf(op.key).cached_at < StartClock
    /\ last_request_time > 0 /\ attempts > 0

(***************************************************************************)
(* C9  Write-through                                                       *)
(***************************************************************************)
\* the step in which a call ends with a live body
LiveReturn == pc = "request" /\ pc' = "idle" /\ ret'.src = "live"

\* the step that starts a call for the key of the call before it, which
\* ended with a live body whose entry has not expired
SecondCall ==
    /\ CallStarts /\ CallDone
    /\ ret.src = "live"
    /\ op'.key = op.key
    /\ now <= ExpiresAt(FileOf(op.key))

\* what C9 promises of those two steps
WrittenThrough ==
    LET f == files'[get_cache_path(cache_key)]
    IN  /\ ret'.val = JsonDecode(responses'[Len(responses')].body)
        /\ IsEntry(f)
        /\ f.data = JsonEncode(ret'.val)
        /\ ExpiresAt(f) = now' + ttl * TicksPerSecond

ServedAgain ==
    /\ ret' = Return(ret.val, "hit")
    /\ pc' = "idle"
    /\ attempts' = attempts

\* C9 as stated: with caching enabled (use_cache), after get_or_fetch gets a
\* body by a successful live fetch the cache holds that body under the key
\* with expires_at = fetch time + ttl, and a second get_or_fetch for the key
\* before expiry returns the same body without an HTTP attempt.
C9_WriteThroughAsStated ==
    [][/\ (LiveReturn /\ use_cache) => WrittenThrough
       /\ (SecondCall /\ use_cache) => ServedAgain]_vars

\* C9 amended: the same, provided the cache directory exists, so that the
\* write does not fail.
C9_WriteThrough ==
    [][/\ (LiveReturn /\ use_cache /\ dirOk) => WrittenThrough
       /\ (SecondCall /\ use_cache /\ dirOk) => ServedAgain]_vars

\* a hit on the entry a live fetch of this run wrote
C9_Witness ==
    /\ CallDone /\ ret.kind = "return" /\ ret.src = "hit"
    /\ use_cache /\ dirOk
    /\ attempts > 0
    /\ IsEntry(FileOf(op.key))
    /\ FileOf(op.key).cached_at >= StartClock
    /\ FileOf(op.key).data = JsonEncode(ret.val)

(***************************************************************************)
(* C10  What get_or_fetch raises                                           *)
(***************************************************************************)
\* C10: get_or_fetch raises only when the request failed and caching is
\* disabled or no entry, fresh or stale, can be read for the key; what it
\* raises is the request's own error, never an error of the cache layer.
C10_RaisesOnlyRequestError ==
    (CallDone /\ ret.kind = "raise")
        => /\ RequestFailed
           /\ ret.exc = ErrorOf(responses[Len(responses)], Len(responses))
           /\ ret.exc.type \in {"Timeout", "ConnectionError", "HTTPError", "RequestException"}
           /\ \/ ~use_cache
              \/ get(files, op.key, TRUE, now).exc # "none"
              \/ get(files, op.key, TRUE, now).val = None

\* a call that raised the request's error although both cache reads raised
\* TypeError on a file that holds a number
C10_Witness ==
    /\ CallDone /\ use_cache
    /\ FileOf(op.key).kind = "number"
    /\ ret.kind = "raise" /\ ret.exc.type = "HTTPError"

(***************************************************************************)
(* C11  Stale data only as the last resort                                 *)
(***************************************************************************)
\* C11: whenever get_or_fetch returns an expired entry, no unexpired entry
\* existed for the key when the call started (the entry it serves had expired
\* before), and a live fetch was attempted and every attempt of it had
\* failed before the expired entry was read.
C11_StaleOnlyAfterFailure ==
    (CallDone /\ ret.kind = "return" /\ ret.src = "stale")
        => /\ use_cache
           /\ IsEntry(FileOf(op.key))
           /\ ret.val = JsonDecode(FileOf(op.key).data)
           /\ FileOf(op.key).cached_at < op.at
           /\ ExpiresAt(FileOf(op.key)) < op.at
           /\ responses # <<>>
           /\ \A i \in DOMAIN responses : responses[i].class # "ok"
           /\ attempts >= Len(responses)

\* a call that served an expired entry after the 404 of its only attempt
C11_Witness ==
    /\ CallDone /\ ret.kind = "return" /\ ret.src = "stale"
    /\ Classes = <<"4xx">>
    /\ IsEntry(FileOf(op.key)) /\ ExpiresAt(FileOf(op.key)) < op.at

(***************************************************************************)
(* Vocabulary of the cache's properties                                    *)
(***************************************************************************)
\* the last operation was name(...), and the clock has not moved since
JustDid(name) == op.name = name /\ op.at = now

\* this step is a get(k)
GetStep == op'.name = "get" /\ op'.at = now /\ now' = now

\* content that parses as JSON but is not a value with both 'data' and
\* 'expires_at': not an object at all, or an object with a field missing
StructurallyInvalid(f) ==
    \/ f.kind \in {"number", "array"}
    \/ f.kind = "object" /\ ~({"data", "expires_at"} \subseteq f.keys)

C13_StructurallyInvalidPurged ==
    [][(GetStep /\ StructurallyInvalid(FileOf(op'.key)))
           => /\ ret' = Return(None, "cache")
              /\ files'[get_cache_path(op'.key)] = NoFile]_vars

(***************************************************************************)
(* C14  is_valid                                                           *)
(***************************************************************************)
\* C14: is_valid(k) is true exactly when an entry for k exists, has both
\* 'data' and 'expires_at', and now <= expires_at; so, at the same instant,
\* is_valid(k) is true if and only if get(k) returns a payload.
C14_IsValidIffGet ==
    JustDid("is_valid")
        => /\ ret = Return(PyBool(IsEntry(FileOf(op.key))
                                  /\ now <= ExpiresAt(FileOf(op.key))), "cache")
           /\ ret.val = PyBool(TRUE)
                  <=> /\ get(files, op.key, FALSE, now).exc = "none"
                      /\ get(files, op.key, FALSE, now).val # None

(***************************************************************************)
(* C15  set never fails its caller                                         *)
(***************************************************************************)
\* C15: set(k, data, ttl) returns normally whatever fails in persisting the
\* entry: the cache directory missing, the payload not serializable.
C15_SetNeverRaises ==
    op.name = "set" => ret = Return(None, "cache")

(***************************************************************************)
(* C16  Overwrite                                                          *)
(***************************************************************************)
\* C16 as stated: a set(k, p2, ttl2) for a key that holds p1 replaces the
\* entry wholesale: get(k, allow_expired = true) returns p2, nothing of p1
\* is left, and the entry expires at the time of this write plus ttl2.
C16_OverwriteAsStated ==
    (JustDid("set") /\ op.found = "object" /\ op.held # None)
        => /\ Gave(get(files, op.key, TRUE, now), op.data)
           /\ IsEntry(FileOf(op.key))
           /\ ExpiresAt(FileOf(op.key)) = now + op.ttl * TicksPerSecond

\* C16 amended: a set(k, p2, ttl2) of a JSON value p2 (a dict with string
\* keys, a list) for a key that holds p1 replaces the entry wholesale:
\* get(k, allow_expired = true) returns p2, the file holds the fields of this
\* write only, and the entry expires at the time of this write plus ttl2.
C16_Overwrite ==
    (JustDid("set") /\ op.found = "object" /\ op.held # None
     /\ op.data \in JsonValues)
        => /\ Gave(get(files, op.key, TRUE, now), op.data)
           /\ IsEntry(FileOf(op.key))
           /\ FileOf(op.key).keys = {"data", "cached_at", "expires_at", "ttl"}
           /\ FileOf(op.key).data = JsonEncode(op.data)
           /\ FileOf(op.key).cached_at = now
           /\ FileOf(op.key).ttl = op.ttl
           /\ ExpiresAt(FileOf(op.key)) = now + op.ttl * TicksPerSecond

\* a set(k, p2, -1) over an entry that held another payload p1, one second
\* or more after the process started
C16_Witness ==
    /\ JustDid("set") /\ op.found = "object"
    /\ op.held # None /\ op.held # op.data
    /\ op.data \in JsonValues /\ op.ttl = -1
    /\ now > StartClock
    /\ get(files, op.key, TRUE, now).val = op.data

(***************************************************************************)
(* C17  clear                                                              *)
(***************************************************************************)
\* C17: clear() never raises, and after it every entry whose own deletion
\* did not fail is gone: a deletion that fails does not keep the other
\* entries from being removed.
C17_ClearBestEffort ==
    op.name = "clear"
        => /\ ret = Return(None, "cache")
           /\ \A n \in FileNames \ op.failed : files[n] = NoFile

(***************************************************************************)
(* Vocabulary of the resource operations' properties                       *)
(***************************************************************************)
\* the required fields of the records, section 3 of the specification
RaceFields == {"season", "round", "raceName", "Circuit", "date"}
RaceResultFields == {"Driver", "Constructor", "position", "points", "grid", "laps", "status"}
DriverStandingFields == {"Driver", "Constructors", "position", "points", "wins"}
ConstructorStandingFields == {"Constructor", "position", "points", "wins"}

\* an element the provider's documentation allows
Valid(e) == e.shape = "object" /\ e.value \in Documented

\* an element that lacks one of the required fields
Lacks(e, fields) == e.shape = "object" /\ e.value = "missing" /\ e.field \in fields

\* every element is valid or lacks a required field
OnlyMissing(elems, fields) ==
    \A i \in DOMAIN elems : Valid(elems[i]) \/ Lacks(elems[i], fields)

\* records in the order of their elements in the document
Ascending(records) ==
    \A i, j \in DOMAIN records :
        i < j => \/ records[i].race < records[j].race
                 \/ /\ records[i].race = records[j].race
                    /\ records[i].element < records[j].element

\* the operation returned exactly the records recs, each once, in document
\* order, and logged n warnings
ReturnedExactly(recs, n) ==
    /\ parsed.kind = "return"
    /\ Ascending(parsed.records)
    /\ {parsed.records[i] : i \in DOMAIN parsed.records} = recs
    /\ parsed.warnings = n

CollectionOperations ==
    {"get_current_season_results", "get_driver_standings", "get_constructor_standings",
     "get_qualifying_results", "get_circuit_history"}

(***************************************************************************)
(* C18  Record-level parse tolerance                                       *)
(***************************************************************************)
\* C18: when some elements of the collection of a response lack a required
\* field, the operation returns exactly the records of the valid elements,
\* in their original order, and logs one warning for each element it
\* skipped; for the season results, a race that lacks a field is one such
\* element, and the results of the valid races are the others.
C18_RecordTolerance ==
    LET es == fetched.elems
        ValidResults(i) == {j \in DOMAIN es[i].results : Valid(es[i].results[j])}
    IN  /\ (parsed.op = "get_driver_standings" /\ fetched.tag = "DriverStandings"
            /\ OnlyMissing(es, DriverStandingFields))
               => ReturnedExactly({Record(0, i) : i \in {i \in DOMAIN es : Valid(es[i])}},
                                  Cardinality({i \in DOMAIN es : ~Valid(es[i])}))
        /\ (parsed.op = "get_constructor_standings" /\ fetched.tag = "ConstructorStandings"
            /\ OnlyMissing(es, ConstructorStandingFields))
               => ReturnedExactly({Record(0, i) : i \in {i \in DOMAIN es : Valid(es[i])}},
                                  Cardinality({i \in DOMAIN es : ~Valid(es[i])}))
        /\ (parsed.op = "get_current_season_results" /\ fetched.tag = "Races"
            /\ OnlyMissing(es, RaceFields)
            /\ \A i \in DOMAIN es : OnlyMissing(es[i].results, RaceResultFields))
               => ReturnedExactly(
                      UNION {{Record(i, j) : j \in ValidResults(i)} :
                                i \in {i \in DOMAIN es : Valid(es[i])}},
                      Cardinality({i \in DOMAIN es : ~Valid(es[i])})
                      + Cardinality(UNION {{<<i, j>> : j \in DOMAIN es[i].results \ ValidResults(i)} :
                                              i \in {i \in DOMAIN es : Valid(es[i])}}))

\* three driver standings of which the second lacks its position: the
\* records of the first and the third, one warning
C18_Witness ==
    /\ parsed.op = "get_driver_standings"
    /\ fetched.tag = "DriverStandings"
    /\ Len(fetched.elems) = 3
    /\ Valid(fetched.elems[1]) /\ Valid(fetched.elems[3])
    /\ Lacks(fetched.elems[2], DriverStandingFields)
    /\ parsed.records = <<Record(0, 1), Record(0, 3)>>
    /\ parsed.warnings = 1

(***************************************************************************)
(* C19  No collection operation raises on a malformed element              *)
(***************************************************************************)
\* C19: the collection operations never raise because of a malformed
\* element, whatever the malformation: they return.
C19_NeverRaises ==
    (parsed.op \in CollectionOperations /\ fetched.kind = "return")
        => parsed.kind = "return"

(***************************************************************************)
(* C20  get_next_race                                                      *)
(***************************************************************************)
\* C20: get_next_race raises, and returns no record, whenever the fetch
\* failed with no cache substitute, the race collection of the response is
\* empty, or the first race lacks a required field; it returns a Race, that
\* of the first race, only when the first race parses completely.
C20_NextRaceHardFailure ==
    parsed.op = "get_next_race"
        => /\ (\/ fetched.kind = "raise"
               \/ fetched.tag # "Races"
               \/ fetched.elems = <<>>
               \/ Lacks(fetched.elems[1], RaceFields))
                  => parsed.kind = "raise" /\ parsed.records = <<>>
           /\ parsed.kind = "return"
                  => /\ fetched.kind = "return" /\ fetched.tag = "Races"
                     /\ fetched.elems # <<>>
                     /\ Valid(fetched.elems[1])
                     /\ parsed.records = <<Record(1, 0)>>
           /\ parsed.kind \in {"return", "raise"}

\* get_next_race raised ValueError because the fetch had failed
C20_Witness ==
    /\ parsed.op = "get_next_race"
    /\ fetched.kind = "raise"
    /\ parsed.kind = "raise" /\ parsed.exc = "ValueError"

Unsafe == {"/", ":"}

HasUnsafe(key) == \E i \in DOMAIN key : key[i] \in Unsafe

\* C22: the key of a set that contains '/' and ':' maps to a file name
\* with no '/' and no ':' left, and no other key, such as one with '_' in
\* the same positions, maps to that name.
C22_SanitizedNoCollision ==
    (op.name = "set" /\ HasUnsafe(op.key))
        => /\ ~HasUnsafe(get_cache_path(op.key))
           /\ \A k \in Keys \ {op.key} : get_cache_path(k) # get_cache_path(op.key)

(***************************************************************************)
(* C23  Rate limiting of every outbound request                            *)
(***************************************************************************)
\* this step dispatches an HTTP attempt: the first of a request, or a retry
Dispatches ==
    pc' = "request" /\ (calls' = calls + 1 \/ retry_count' = retry_count + 1)

\* C23: on one fetcher, any two consecutive outbound HTTP attempts, retries
\* and the first attempt of the next request included, are dispatched at
\* least 100 ms apart.
C23_RateLimited ==
    [][(Dispatches /\ last_dispatch > 0)
           => last_dispatch' - last_dispatch >= RATE_LIMIT_DELAY]_vars

(***************************************************************************)
(* C24  Freshness boundary                                                 *)
(***************************************************************************)
\* C24: for an entry with 'data' and a timestamp 'expires_at', get(k)
\* without allow_expired returns the payload if and only if
\* now <= expires_at, and absent otherwise: an entry read at the very
\* instant now = expires_at is still served.
C24_FreshnessBoundary ==
    /\ \A k \in Keys :
           IsEntry(FileOf(k))
               => Gave(get(files, k, FALSE, now),
                       IF now <= ExpiresAt(FileOf(k))
                       THEN JsonDecode(FileOf(k).data) ELSE None)
    /\ (JustDid("get") /\ ~op.ignore_ttl /\ IsEntry(FileOf(op.key)))
           => /\ JsonDecode(FileOf(op.key).data) # None
              /\ ret = Return(IF now <= ExpiresAt(FileOf(op.key))
                              THEN JsonDecode(FileOf(op.key).data) ELSE None, "cache")

\* a get(k) that returned the payload of an entry written a second earlier
\* with ttl = 1, at the instant now = expires_at
C24_Witness ==
    /\ JustDid("get") /\ ~op.ignore_ttl
    /\ IsEntry(FileOf(op.key))
    /\ FileOf(op.key).ttl = 1
    /\ FileOf(op.key).cached_at < now
    /\ now = ExpiresAt(FileOf(op.key))
    /\ ret.kind = "return" /\ ret.val # None
    /\ ret.val = JsonDecode(FileOf(op.key).data)

(***************************************************************************)
(* C25  A cache whose storage location could not be created                *)
(***************************************************************************)
\* C25: when the storage location could not be created at construction,
\* caching stays disabled for the rest of the process: every later get
\* returns absent, every later set returns without raising, and nothing is
\* stored.
C25_DisabledCache ==
    ~dirOk
        => /\ op.name \in {"get", "set"} => ret = Return(None, "cache")
           /\ \A n \in FileNames : files[n].kind \in {"nofile", "denied"}

(***************************************************************************)
(* C26  The scoring side and empty inputs                                  *)
(***************************************************************************)
\* the run is over and every fetcher operation it called returned
RunReturned == run.step = "done" /\ run.raised = {}

\* a driver standing that names a driver and a constructor
Predictable(ds) == \E i \in DOMAIN ds : ds[i].driver /\ ds[i].constructor

\* the run ended with a result that holds predictions
Predicted == run.result.kind = "result" /\ run.result.predictions >= 1

\* C26 as stated: a prediction run in which any of the standings, the
\* qualifying results or the venue history is an empty collection still
\* completes with predictions instead of aborting.
C26_ToleratesEmptyAsStated ==
    (RunReturned
     /\ (run.driver_standings = <<>> \/ Predictable(run.driver_standings)))
        => Predicted

\* C26 amended: a prediction run in which any of the constructor
\* standings, the qualifying results or the venue history is an empty
\* collection still completes with predictions, provided the driver
\* standings name a driver with its constructor; a run whose driver
\* standings are empty aborts with a PredictionError.
C26_ToleratesEmpty ==
    /\ (RunReturned /\ Predictable(run.driver_standings))
           => /\ Predicted
              /\ run.result.predictions <= run.top_n
    /\ (RunReturned /\ run.driver_standings = <<>>)
           => run.result = PredictionError("MissingData")

\* a run with driver standings and nothing else (no constructor standings,
\* season results, qualifying results or venue history) that ended with
\* predictions
C26_Witness ==
    /\ RunReturned
    /\ Predictable(run.driver_standings)
    /\ run.constructor_standings = 0 /\ run.season_results = 0
    /\ run.qualifying_results = 0 /\ run.circuit_history = 0
    /\ Len(run.fetches) = 6
    /\ Predicted

(***************************************************************************)
(* C27  Backoff schedule                                                   *)
(***************************************************************************)
\* this step is an HTTP attempt that failed in a retryable way, as every
\* attempt of the request before it
RetryableFailure ==
    /\ Len(responses') = Len(responses) + 1
    /\ \A i \in DOMAIN responses' : responses'[i].class \in Retryable

\* C27: after the n-th failed retryable attempt (n = 1, 2) the executor
\* sleeps exactly 2^n seconds before the next attempt, and it does not
\* sleep after the third: a request that fails throughout sleeps 2 s then
\* 4 s, whether the failures are timeouts, connection errors or 5xx.
C27_BackoffSchedule ==
    [][RetryableFailure
           => LET n == Len(responses')
              IN  /\ n \in 1..3
                  /\ n < 3 => /\ slept' = Append(slept, 2 ^ n)
                              /\ now' = now + (2 ^ n) * TicksPerSecond
                              /\ pc' = "request"
                  /\ n = 3 => /\ slept' = slept
                              /\ slept = <<2, 4>>
                              /\ now' = now
                              /\ pc' = "idle"]_vars

\* a request that ended after a timeout, a connection error and a 500,
\* having slept 2 s and then 4 s
C27_Witness ==
    /\ CallDone
    /\ Classes = <<"timeout", "connection", "5xx">>
    /\ slept = <<2, 4>>
    /\ ret.kind = "raise"

(***************************************************************************)
(* C28  Entry lifecycle                                                    *)
(***************************************************************************)
\* this step is a set(k, ...)
SetStep(k) == op' # op /\ op'.name = "set" /\ op'.key = k

\* C28: an entry that set(k, p, ttl) has stored stays physically present:
\* whatever step comes next other than a set of k or a clear (the clock
\* advancing, a get(k), also one that finds it expired, an is_valid, an
\* operation on another key), get(k, allow_expired = true) returns p
\* afterwards and the entry is as it was.
C28_EntryLifecycle ==
    [][\A k \in Keys :
           (IsEntry(FileOf(k)) /\ ~SetStep(k) /\ op'.name # "clear")
               => /\ files'[get_cache_path(k)] = FileOf(k)
                  /\ get(files', k, TRUE, now').exc = "none"
                  /\ get(files', k, TRUE, now').val = JsonDecode(FileOf(k).data)]_vars

(***************************************************************************)
(* C29  One parse error class                                              *)
(***************************************************************************)
\* what a parser may end in by C29: a record, or the parse error
Structured == {"none", "ValueError"}

\* C29: every record parser signals a missing required field and a failed
\* type coercion alike with ValueError: on no element of a response does a
\* parser let a TypeError, a KeyError or an AttributeError escape.
C29_StructuredParseError ==
    LET es == fetched.elems
    IN  /\ (parsed.op = "get_driver_standings" /\ fetched.tag = "DriverStandings")
               => \A i \in DOMAIN es : parse_driver_standing(es[i]) \in Structured
        /\ (parsed.op = "get_constructor_standings" /\ fetched.tag = "ConstructorStandings")
               => \A i \in DOMAIN es : parse_constructor_standing(es[i]) \in Structured
        /\ (parsed.op \in {"get_current_season_results", "get_circuit_history"}
            /\ fetched.tag = "Races")
               => \A i \in DOMAIN es :
                      /\ parse_race(es[i]) \in Structured
                      /\ \A j \in DOMAIN es[i].results :
                             parse_race_result(es[i].results[j]) \in Structured
        /\ (parsed.op = "get_qualifying_results" /\ fetched.tag = "Races")
               => \A i \in DOMAIN es :
                      /\ parse_race(es[i]) \in Structured
                      /\ \A j \in DOMAIN es[i].results :
                             parse_qualifying_result(es[i].results[j]) \in Structured

(***************************************************************************)
(* C30  The seasons of the circuit history                                 *)
(***************************************************************************)
\* get_circuit_history returned a list for a race table
HistoryReturned ==
    /\ parsed.op = "get_circuit_history"
    /\ parsed.kind = "return"
    /\ fetched.tag = "Races"

\* the season the i-th race of the response states
SeasonOf(i) == season_of(FieldOf(fetched.elems[i], "season"))

\* the seasons of the results returned
SeasonsReturned == {SeasonOf(parsed.records[i].race) : i \in DOMAIN parsed.records}

FetchOrder ==
    <<"get_next_race", "get_driver_standings", "get_constructor_standings",
      "get_current_season_results", "get_qualifying_results", "get_circuit_history">>

\* the optional fetches
OptionalFetches ==
    {"get_current_season_results", "get_qualifying_results", "get_circuit_history"}

IsPrefix(s, t) == Len(s) <= Len(t) /\ \A i \in DOMAIN s : s[i] = t[i]

Called(name) == \E i \in DOMAIN run.fetches : run.fetches[i] = name

\* C31: predict_next_race calls the fetcher in the order next race, driver
\* standings, constructor standings, season results, qualifying results,
\* circuit history. A failed next-race fetch ends it in a PredictionError
\* with no other fetch; empty driver standings end it in a PredictionError
\* with none of the three optional fetches made. Once the season results
\* have been asked for, the run makes all six fetches before it ends,
\* whichever of the optional fetches raised or came back empty, and what it
\* ends in is decided by the driver standings alone.
C31_AbortOrDegrade ==
    /\ IsPrefix(run.fetches, FetchOrder)
    /\ "get_next_race" \in run.raised
           => /\ run.fetches = <<"get_next_race">>
              /\ run.step = "done"
              /\ run.result.kind = "error"
    /\ (Called("get_constructor_standings") /\ run.driver_standings = <<>>)
           => /\ run.step = "done"
              /\ run.result.kind = "error"
              /\ \A f \in OptionalFetches : ~Called(f)
    /\ (Called("get_current_season_results") /\ run.step = "done")
           => /\ Len(run.fetches) = 6
              /\ Predictable(run.driver_standings) <=> run.result.kind = "result"
              /\ run.result.kind \in {"result", "error"}

\* a run whose three optional fetches all raised and that ended with
\* predictions
C31_Witness ==
    /\ run.step = "done"
    /\ run.raised = OptionalFetches
    /\ run.fetches = FetchOrder
    /\ run.result.kind = "result"
    /\ run.result.predictions >= 1

(***************************************************************************)
(* C32  One rate limiter for the process                                   *)
(***************************************************************************)
\* C32: the 100 ms spacing holds across the fetchers of a process: when
\* one fetcher dispatches a logical request, the latest logical request of
\* the other fetcher was dispatched at least RATE_LIMIT_DELAY earlier.
C32_ProcessWideRateLimit ==
    [][/\ (second_last_request_time' # second_last_request_time /\ last_request_time > 0)
              => second_last_request_time' - last_request_time >= RATE_LIMIT_DELAY
       /\ (last_request_time' # last_request_time /\ second_last_request_time > 0)
              => last_request_time' - second_last_request_time >= RATE_LIMIT_DELAY]_vars

(***************************************************************************)
(* C33  Caching disabled                                                   *)
(***************************************************************************)
\* the step in which the request of a call ends
RequestEnds == pc = "request" /\ pc' = "idle"

\* C33: with caching disabled no step of get_or_fetch changes a cache file;
\* a call goes straight to the request, whatever the cache holds for its
\* key, and ends with the live body of the successful attempt or with the
\* error of the request, never with a cached payload.
C33_CachingDisabled ==
    [][~use_cache
           => /\ files' = files
              /\ CallStarts => pc' = "request"
              /\ RequestEnds
                     => LET n == Len(responses')
                            last == responses'[n]
                        IN  IF last.class = "ok"
                            THEN ret' = Return(JsonDecode(last.body), "live")
                            ELSE ret' = Raise(ErrorOf(last, n))]_vars

\* with caching disabled, a call raised the error of its request although
\* an expired entry was there for its key
C33_Witness ==
    /\ ~use_cache
    /\ RequestFailed
    /\ ret.kind = "raise"
    /\ IsEntry(FileOf(op.key))
    /\ now > ExpiresAt(FileOf(op.key))

(***************************************************************************)
(* C34  Concurrent use of one cache location                               *)
(***************************************************************************)
\* no call is in progress
Quiescent == \A c \in Callers : shared.callers[c].at \in {"idle", "done"}

\* C34: when calls of two callers on one key overlap, no get reads a
\* partially written entry, no get deletes the entry a set is writing, and
\* once every call has ended after a set, the file of the key holds the
\* whole entry of one of the callers that wrote.
C34_ConcurrentUse ==
    /\ \A c \in Callers : shared.callers[c].saw # "partial"
    /\ ~shared.lost
    /\ (Quiescent /\ shared.sets # {})
           => /\ shared.file.exists
              /\ Complete(shared.file.cells)
              /\ OwnerOf(shared.file.cells) \in shared.sets

(***************************************************************************)
(* C35  A set that fails to persist                                        *)
(***************************************************************************)
\* C35: a set(k, p2, ttl) whose payload cannot be serialized leaves the
\* entry stored under k as it was: the file is the same afterwards, and
\* get(k, allow_expired = true) still returns the earlier payload.
C35_FailedSetKeepsEntry ==
    [][\A k \in Keys :
           (SetStep(k) /\ ~Serializable(op'.data) /\ IsEntry(FileOf(k)))
               => /\ files'[get_cache_path(k)] = FileOf(k)
                  /\ get(files', k, TRUE, now').exc = "none"
                  /\ get(files', k, TRUE, now').val = JsonDecode(FileOf(k).data)]_vars

(***************************************************************************)
(* C36  Key isolation                                                      *)
(***************************************************************************)
\* this step is a get(k) that deleted the file it found
PurgeStep(k) == op' # op /\ op'.name = "get" /\ op'.key = k /\ files' # files

\* what the reads of a key answer on the files fs
Answers(fs, k, clock) ==
    <<get(fs, k, FALSE, clock).exc, get(fs, k, FALSE, clock).val,
      get(fs, k, TRUE, clock).exc, get(fs, k, TRUE, clock).val,
      is_valid(fs, k, clock)>>

\* C36: for any two distinct keys k1 and k2, also two that differ only in
\* '/', ':' or '_', a set(k1, ...) and a get(k1) that purges a corrupt file
\* leave what get(k2) and is_valid(k2) answer unchanged.
C36_KeyIsolation ==
    [][\A k1, k2 \in Keys :
           (k1 # k2 /\ (SetStep(k1) \/ PurgeStep(k1)))
               => Answers(files', k2, now') = Answers(files, k2, now)]_vars

(***************************************************************************)
(* C37  Stale data is served, not refreshed                                *)
(***************************************************************************)
\* the step in which a call ends with an expired entry
StaleReturn == RequestEnds /\ ret'.kind = "return" /\ ret'.src = "stale"

\* the step that starts the next call, for the key of a call that ended
\* with an expired entry
CallAfterStale ==
    /\ CallStarts /\ CallDone
    /\ ret.kind = "return" /\ ret.src = "stale"
    /\ op'.key = op.key

\* C37: when get_or_fetch returns an expired entry after its request
\* failed, the file of the key is left as it was, payload and expires_at,
\* and the next get_or_fetch for the key is a miss again: it dispatches a
\* request instead of returning the entry as a hit.
C37_StaleNotRefreshed ==
    [][/\ StaleReturn
              => /\ files'[get_cache_path(cache_key)] = files[get_cache_path(cache_key)]
                 /\ IsEntry(files'[get_cache_path(cache_key)])
                 /\ ExpiresAt(files'[get_cache_path(cache_key)]) < now'
       /\ CallAfterStale
              => /\ pc' = "request"
                 /\ attempts' = attempts
                 /\ last_dispatch' = now'
                 /\ files'[get_cache_path(op.key)] = FileOf(op.key)]_vars

\* the second call of a run ended with the expired entry an earlier run
\* had left, after the call before it had made its attempts as well
C37_Witness ==
    /\ CallDone /\ calls = MaxCalls
    /\ ret.kind = "return" /\ ret.src = "stale"
    /\ attempts > Len(responses)
    /\ IsEntry(FileOf(op.key))
    /\ FileOf(op.key).cached_at < StartClock
    /\ ExpiresAt(FileOf(op.key)) < now

(***************************************************************************)
(* C38  What the orchestrator writes to the cache                          *)
(***************************************************************************)
\* this step writes the file n: afterwards the file is there and is not
\* what it was
Writes(n) == files'[n] # files[n] /\ files'[n].kind # "nofile"

\* C38: whenever a step of get_or_fetch writes a cache file, the step ends
\* the request of a call with a successful attempt, the file is the one of
\* the key of the call, and what it holds is the body of that attempt, a
\* JSON object with the field 'MRData'; no step that ends in a failed, 4xx
\* or malformed answer, or that returns a stale payload, writes a file.
C38_OnlyLiveBodiesCached ==
    [][\A n \in FileNames :
           Writes(n)
               => /\ RequestEnds
                  /\ responses'[Len(responses')].class = "ok"
                  /\ ret'.kind = "return" /\ ret'.src = "live"
                  /\ n = get_cache_path(cache_key)
                  /\ IsEntry(files'[n])
                  /\ files'[n].data = responses'[Len(responses')].body
                  /\ files'[n].data.tag = "object"
                  /\ files'[n].data.mr]_vars

\* a call whose first attempt was answered by a body without 'MRData' and
\* whose second attempt succeeded: the cache holds the body of the second
C38_Witness ==
    /\ CallDone /\ use_cache /\ dirOk
    /\ Classes = <<"malformed", "ok">>
    /\ ret.kind = "return" /\ ret.src = "live"
    /\ IsEntry(FileOf(op.key))
    /\ FileOf(op.key).cached_at = now
    /\ FileOf(op.key).data = responses[Len(responses)].body
    /\ FileOf(op.key).data.mr

(***************************************************************************)
(* C39  Termination of a prediction run                                    *)
(***************************************************************************)
\* the run has returned a PredictionResult or raised a PredictionError
RunOver == run.step = "done" /\ run.result.kind \in {"result", "error"}

\* C39: as long as every HTTP attempt ends, a prediction run eventually
\* returns a result or raises PredictionError, and at no time has it made
\* more than 6 logical fetches or more than 18 HTTP attempts.
C39_Termination ==
    /\ <>RunOver
    /\ [](/\ Len(run.fetches) <= 6
          /\ calls <= 6
          /\ attempts <= 18
          /\ run.step = "done" => RunOver)

\* a run that made six fetches of three failed attempts each and ended
\* with predictions
C39_Witness ==
    /\ RunOver
    /\ run.result.kind = "result"
    /\ Len(run.fetches) = 6
    /\ attempts = 18

====
